---- MODULE Spec2Model ----
(***************************************************************************)
(* Combat engine of rpg-combat-simulator: run_combat and its helpers       *)
(* (src/simulation/simulator.py), CombatState (src/domain/combat_state.py),*)
(* victory detection (src/simulation/victory.py) and the dice/damage rules *)
(* (src/domain/rules.py).  A step sorts the initiative order, starts a     *)
(* round, resolves the action of the creature whose turn it is, or ends    *)
(* that turn; pc names where run_combat is.  RulesSpec calls the functions *)
(* of rules.py, victory.py, cover.py, combat_state.py and difficulty.py on *)
(* their own, ThreeTeamSpec runs run_combat on creatures of three team     *)
(* tags, and BatchSpec runs run_batch (src/simulation/batch_runner.py)     *)
(* with the Monte Carlo sampling of src/simulation/monte_carlo.py, each    *)
(* trial being one step; mc names where run_batch is.  AgentSpec calls     *)
(* choose_action and reset_circuit_breaker of an LLMAgent                  *)
(* (src/agents/llm_agent.py).                                              *)
(***************************************************************************)
EXTENDS Integers, Sequences, FiniteSets, TLC

\* ------------------------------------------------------------------ bounds
\* max_rounds argument of run_combat (default 100 in the source).
MaxRounds == 2
\* Number of grid columns A, B, C, ... of rank 1 the creatures stand on.
GridW == 3

\* ------------------------------------------------------- program constants
DefaultReach == 5
FeetPerSquare == 5
DefaultSaveDC == 14
DefaultAbility == 10

\* Absent string field (Python None).
None == "None"
\* Optional[int] and Optional position fields are sets of at most one value:
\* {} is Python None.
Some(v) == {v}
Nothing == {}
Val(o) == CHOOSE v \in o : TRUE

\* ------------------------------------------------------------------ roster
\* Creature ids; the integer order stands for the ascending string order of
\* creature_id.
Ids == 1 .. 4

Cells == {<<x, 0>> : x \in 0 .. (GridW - 1)}

\* A dice expression NdM+K is the record [n |-> N, m |-> M, k |-> K]; a flat
\* expression has n = 0.
Dice(n, m, k) == [n |-> n, m |-> m, k |-> k]

Atk(bonus, dice, dtype, reach, range) ==
    [attack_bonus |-> bonus, dice |-> dice, damage_type |-> dtype,
     reach |-> reach, range |-> range]

\* Action with attacks only.
ActAttacks(name, attacks) ==
    [name |-> name, attacks |-> attacks, area_shape |-> None,
     radius_squares |-> Nothing, save_ability |-> None, save_dc |-> Nothing,
     has_damage |-> FALSE, dice |-> Dice(0, 0, 0), damage_type |-> None]

\* Sphere AoE action without attacks.
ActAoE(name, radius, ability, dc, dice, dtype) ==
    [name |-> name, attacks |-> <<>>, area_shape |-> "sphere",
     radius_squares |-> Some(radius), save_ability |-> ability, save_dc |-> dc,
     has_damage |-> TRUE, dice |-> dice, damage_type |-> dtype]

Creature(team_tag, ac, hp_max, init_bonus, position, dex, actions, res, imm, vul) ==
    [team |-> team_tag, ac |-> ac, hp_max |-> hp_max, initiative_bonus |-> init_bonus,
     position |-> position, dex |-> dex, actions |-> actions,
     damage_resistances |-> res, damage_immunities |-> imm,
     damage_vulnerabilities |-> vul]

\* The creatures handed to run_combat.
\*  1 fighter: melee attack with no declared reach or range; immune to cold
\*  2 archer : ranged attack only
\*  3 wizard : Fireball (sphere AoE, default save), then a ranged ray whose
\*             damage expression has a negative modifier, then a dagger
\*  4 ogre   : two-entry multiattack with reach 5, resistant to piercing,
\*             vulnerable to fire
Templates ==
    <<
      Creature("party", 12, 1, 4, <<1, 0>>, 10,
               << ActAttacks("Longsword",
                     << Atk(4, Dice(0, 0, 1), "slashing", Nothing, Nothing) >>) >>,
               {}, {"cold"}, {}),
      Creature("party", 11, 1, 1, <<0, 0>>, 14,
               << ActAttacks("Shortbow",
                     << Atk(3, Dice(1, 2, 0), "piercing", Nothing, Some(80)) >>) >>,
               {}, {"cold"}, {}),
      Creature("party", 10, 1, 0, <<GridW - 1, 0>>, 12,
               << ActAoE("Fireball", 1, None, Nothing, Dice(0, 0, 1), "fire"),
                  ActAttacks("Ray",
                     << Atk(2, Dice(1, 2, -2), "cold", Nothing, Some(60)) >>),
                  ActAttacks("Dagger",
                     << Atk(2, Dice(0, 0, 1), "piercing", Some(10), Some(20)) >>) >>,
               {}, {"cold"}, {}),
      Creature("enemy", 9, 2, 3, <<GridW - 1, 0>>, 8,
               << ActAttacks("Multiattack",
                     << Atk(5, Dice(0, 0, 1), "bludgeoning", Some(5), Nothing),
                        Atk(5, Dice(0, 0, 1), "bludgeoning", Some(5), Nothing) >>) >>,
               {"piercing"}, {}, {"fire"})
    >>

\* Names of the Actions of creature c.
OwnActionNames(c) == {Templates[c].actions[n].name : n \in 1 .. Len(Templates[c].actions)}

\* Faces of the d20 used for attack rolls and saving throws.
D20 == 1 .. 20

\* Faces of the d20 used for initiative (random.randint(1, 20)); two adjacent
\* faces give both ties and strict orders between the creatures.
InitiativeDie == {10, 11}

\* ------------------------------------------------------ distance.py
Abs(x) == IF x < 0 THEN -x ELSE x

manhattan_distance(a, b) == Abs(a[1] - b[1]) + Abs(a[2] - b[2])

distance_in_feet(a, b) == manhattan_distance(a, b) * FeetPerSquare

\* ------------------------------------------------------ rules.py
\* AttackResult.is_hit for a natural roll, a bonus and the AC compared against.
\* Variant of the hit rule without the automatic miss on a natural 1.
AttackResult_is_hit_NoAutoMiss(natural_roll, bonus, ac) ==
    IF natural_roll = 20 THEN TRUE
    ELSE natural_roll + bonus >= ac

AttackResult_is_hit(natural_roll, bonus, ac) ==
    IF natural_roll = 1 THEN FALSE
    ELSE IF natural_roll = 20 THEN TRUE
    ELSE natural_roll + bonus >= ac

AttackResult_is_critical(natural_roll) == natural_roll = 20

\* make_attack_roll(bonus, ac, None) for the natural roll the d20 gives.
make_attack_roll(natural_roll, bonus, ac) ==
    [is_hit |-> AttackResult_is_hit(natural_roll, bonus, ac),
     is_critical |-> AttackResult_is_critical(natural_roll)]

\* Variant of the effective AC that leaves the cover bonus out.
CoverAdjustedAC_WithoutCover(ac, cover_bonus) == ac

\* The cover_bonus keyword the simulator passes to make_attack_roll: the cover
\* bonus is added to the target's effective AC before the comparison.
CoverAdjustedAC(ac, cover_bonus) == ac + cover_bonus


\* All totals of num_dice dice of die_size faces.
roll_dice(num_dice, die_size) ==
    IF num_dice = 0 THEN {0} ELSE num_dice .. (num_dice * die_size)

\* Totals d20.roll can give for the expression NdM+K (or the flat K).
roll_damage(dice) == {t + dice.k : t \in roll_dice(dice.n, dice.m)}

\* roll_damage_for_attack: a critical doubles the dice count, not the modifier.
roll_damage_for_attack(dice, is_critical) ==
    IF is_critical
    THEN IF dice.n > 0 /\ dice.m > 0
         THEN roll_damage(Dice(dice.n * 2, dice.m, dice.k))
         ELSE {dice.k}
    ELSE roll_damage(dice)

\* Python floor division by 2.
FloorHalf(x) == IF x >= 0 THEN x \div 2 ELSE -((1 - x) \div 2)

\* Variant of apply_damage_modifiers that looks at vulnerability before
\* resistance.
apply_damage_modifiers_VulnerabilityFirst(damage, damage_type, cr) ==
    IF damage_type \in cr.damage_immunities THEN 0
    ELSE IF damage_type \in cr.damage_vulnerabilities THEN damage * 2
    ELSE IF damage_type \in cr.damage_resistances THEN FloorHalf(damage)
    ELSE damage

\* apply_damage_modifiers: immunity, then resistance, then vulnerability.
apply_damage_modifiers(damage, damage_type, cr) ==
    IF damage_type \in cr.damage_immunities THEN 0
    ELSE IF damage_type \in cr.damage_resistances THEN FloorHalf(damage)
    ELSE IF damage_type \in cr.damage_vulnerabilities THEN damage * 2
    ELSE damage

\* AbilityScores.modifier: (score - 10) // 2.
ability_modifier(score) ==
    IF score >= DefaultAbility THEN (score - DefaultAbility) \div 2
    ELSE -((DefaultAbility + 1 - score) \div 2)

\* make_saving_throw(mod, dc, None).is_success for the roll the d20 gives.
make_saving_throw(roll, modifier, dc) == roll + modifier >= dc

Max(a, b) == IF a >= b THEN a ELSE b

\* ------------------------------------------------------ simulator.py helpers
\* _find_action: the creature's first action of that name, as a set (empty:
\* None).
find_action(cr, action_name) ==
    LET hits == {n \in 1 .. Len(cr.actions) : cr.actions[n].name = action_name}
    IN  IF hits = {} THEN Nothing
        ELSE Some(cr.actions[CHOOSE n \in hits : \A q \in hits : n <= q])

\* All attacks of the creature, in action order then attack order.
RECURSIVE FlattenAttacks(_)
FlattenAttacks(actions) ==
    IF actions = <<>> THEN <<>>
    ELSE Head(actions).attacks \o FlattenAttacks(Tail(actions))

\* An attack is melee when it declares a reach or declares no range.
IsMeleeAttack(atk) == atk.reach # Nothing \/ atk.range = Nothing

\* _first_melee_attack: the first melee attack, as a set (empty: (None, None)).
first_melee_attack(cr) ==
    LET all == FlattenAttacks(cr.actions)
        hits == {n \in 1 .. Len(all) : IsMeleeAttack(all[n])}
    IN  IF hits = {} THEN Nothing
        ELSE Some(all[CHOOSE n \in hits : \A q \in hits : n <= q])

\* Variant of _get_melee_reach that ignores the declared reach.
get_melee_reach_Default(cr) == DefaultReach

\* _get_melee_reach: reach of the first melee attack, 5 when it declares none
\* or when the creature has no melee attack.
get_melee_reach(cr) ==
    LET first == first_melee_attack(cr)
    IN  IF first = Nothing THEN DefaultReach
        ELSE IF Val(first).reach # Nothing THEN Val(Val(first).reach)
        ELSE DefaultReach

\* ------------------------------------------------------ state
VARIABLES
    hp,                \* state.creatures[cid].current_hp
    pos,               \* state.creatures[cid].position
    initiative_rolls,  \* run_combat local: total rolled per creature, until the rounds run
    initiative_order,  \* state.initiative_order
    current_turn,      \* state.current_turn
    round,             \* state.round
    reaction_used,     \* state.reaction_used
    rounds,            \* run_combat local: rounds started
    pc,                \* where run_combat is: "start", "round", "turn", "end_turn", "done"
    i,                 \* index into initiative_order of the turn loop (1-based)
    winner,            \* get_winner(state) at the end of run_combat
    asked,             \* log: creatures asked for an action in this round, in order
    oa_made,           \* log: opportunity attack rolls per creature in this round
    action,            \* the AgentAction being resolved
    how,               \* how the turn being resolved leaves the loop body
    oa_log,            \* log: opportunity attack rolls of the turn being resolved
    atk_log,           \* log: sub-attack rolls of the turn being resolved
    save_log,          \* log: saving throws of the AoE being resolved
    team,              \* state.creatures[cid].team
    entries_tail,      \* logger.entries from the first entry log_combat_end adds
    is_over,           \* state.is_over
    state_winner,      \* state.winner
    probe,             \* a call of a rules function outside run_combat: its arguments
    out,               \* what that call returned, once it has returned
    objects,           \* the heap: Creature objects, creatures dicts and lists
    states,            \* the CombatState objects made so far, oldest first
    store,             \* the Creature objects of a simulation: templates, then copies
    fresh,             \* the creatures dict handed to the latest run_combat of a trial
    wins,              \* run_simulation local
    total_runs,        \* run_simulation local
    final_states,      \* run_simulation local: the final state of each trial
    runs_left,         \* iterations left in the for loop run_simulation is in
    mc,                \* where run_batch is
    progress_calls,    \* log: the calls of on_progress
    criterion_log,     \* log: the evaluations of the stopping criterion
    consecutive_failures,  \* LLMAgent._consecutive_failures
    circuit_open,      \* LLMAgent._circuit_open
    decisions          \* log: the calls of choose_action and reset_circuit_breaker

\* The calls of rules functions made outside run_combat.
rules_vars == <<probe, out, objects, states>>

\* The state of run_combat.
engine_vars == <<hp, pos, initiative_rolls, initiative_order, current_turn, round,
                 reaction_used, rounds, pc, i, winner, asked, oa_made, action, how,
                 oa_log, atk_log, save_log, team, entries_tail, is_over, state_winner>>

\* The state of run_batch and of the run_simulation it calls.
sim_vars == <<store, fresh, wins, total_runs, final_states, runs_left, mc,
              progress_calls, criterion_log>>

\* The state of an LLMAgent.
agent_vars == <<consecutive_failures, circuit_open, decisions>>

vars == <<engine_vars, rules_vars, sim_vars, agent_vars>>

N == Len(Templates)

Teams == {team[c] : c \in Ids}

\* ------------------------------------------------------ victory.py
\* `teams.setdefault(c.team, [])`: the team tags of creatures with the tags tm.
TeamsOf(tm) == {tm[c] : c \in DOMAIN tm}

\* Variant of is_combat_over that wants every team down.
is_combat_over_of_AllTeams(tm, h) ==
    \A t \in TeamsOf(tm) : \A m \in DOMAIN tm : tm[m] = t => h[m] <= 0

\* is_combat_over for creatures with the team tags tm and the HP values h.
is_combat_over_of(tm, h) ==
    \E t \in TeamsOf(tm) : \A m \in DOMAIN tm : tm[m] = t => h[m] <= 0

\* get_winner for creatures with the team tags tm and the HP values h.
get_winner_of(tm, h) ==
    LET alive == {t \in TeamsOf(tm) : \E m \in DOMAIN tm : tm[m] = t /\ h[m] > 0}
    IN  IF Cardinality(alive) = 1 THEN CHOOSE t \in alive : TRUE ELSE None

\* is_combat_over(state) in run_combat, the creatures at the HP values h.
is_combat_over(h) == is_combat_over_of(team, h)

\* get_winner(state) in run_combat, the creatures at the HP values h.
get_winner(h) == get_winner_of(team, h)

\* ------------------------------------------------------ initiative
\* Variant of the sort key with ties in descending creature_id order.
KeyLess_TiesDescending(rolls, a, b) ==
    \/ rolls[a] > rolls[b]
    \/ rolls[a] = rolls[b] /\ a > b

\* sorted(ids, key=lambda cid: (-total, cid)): a precedes b.
KeyLess(rolls, a, b) ==
    \/ rolls[a] > rolls[b]
    \/ rolls[a] = rolls[b] /\ a < b

RECURSIVE SortIds(_, _)
SortIds(rolls, ids) ==
    IF ids = {} THEN <<>>
    ELSE LET first == CHOOSE a \in ids : \A b \in ids \ {a} : KeyLess(rolls, a, b)
         IN  <<first>> \o SortIds(rolls, ids \ {first})

\* No action is being resolved.
NoAction == [action_type |-> None, attack_name |-> None, target_id |-> Nothing,
             target_position |-> Nothing, move_to |-> Nothing]

\* No rules function is being called outside run_combat.
NoProbe == [fn |-> "run_combat"]

\* A heap without objects.
NoObjects == [creatures |-> <<>>, dicts |-> <<>>, lists |-> <<>>]

\* No simulation is running.
NoSimulation ==
    /\ store = <<>>
    /\ fresh = <<>>
    /\ wins = 0
    /\ total_runs = 0
    /\ final_states = <<>>
    /\ runs_left = 0
    /\ mc = "idle"
    /\ progress_calls = <<>>
    /\ criterion_log = <<>>

\* LLMAgent.__init__: the circuit breaker of a new agent.
NewAgent ==
    /\ consecutive_failures = 0
    /\ circuit_open = FALSE
    /\ decisions = <<>>

\* run_combat is called with creatures of the team tags tm.
InitWithTeams(tm) ==
    /\ NoSimulation
    /\ NewAgent
    /\ team = tm
    /\ probe = NoProbe
    /\ out = Nothing
    /\ objects = NoObjects
    /\ states = <<>>
    /\ hp = [c \in Ids |-> Templates[c].hp_max]
    /\ pos = [c \in Ids |-> Templates[c].position]
    /\ \E r \in [Ids -> InitiativeDie] :
          initiative_rolls = [c \in Ids |-> r[c] + Templates[c].initiative_bonus]
    /\ initiative_order = <<>>
    /\ current_turn = 0
    /\ round = 1
    /\ reaction_used = {}
    /\ rounds = 0
    /\ pc = "start"
    /\ i = 1
    /\ winner = None
    /\ asked = <<>>
    /\ oa_made = [c \in Ids |-> 0]
    /\ action = NoAction
    /\ how = None
    /\ oa_log = <<>>
    /\ atk_log = <<>>
    /\ save_log = <<>>
    /\ entries_tail = <<>>
    /\ is_over = FALSE
    /\ state_winner = None

\* The party against the enemy.
Init == InitWithTeams([c \in Ids |-> Templates[c].team])

\* ------------------------------------------------------ the agent
Opt(S) == {Nothing} \cup {Some(v) : v \in S}

AgentAction(type, name, target, center, move_to) ==
    [action_type |-> type, attack_name |-> name, target_id |-> target,
     target_position |-> center, move_to |-> move_to]

\* The cells the agent sends creatures to: the two ends of the row.
MoveCells == {<<0, 0>>, <<GridW - 1, 0>>}

\* What choose_action may return for creature c.  Well-formed actions: dodge,
\* death_save, a move, an attack with any of its Actions on any creature, a
\* move_and_attack likewise, an AoE with any of its Actions at any cell or at
\* its own.  And ill-formed ones the engine still has to handle: a dodge or an
\* "attack" carrying a move_to, move_and_attack without one, a missing or unknown
\* attack name, a missing target, a missing move_to.
AgentActions(c) ==
    {AgentAction("dodge", None, Nothing, Nothing, Nothing),
     AgentAction("death_save", None, Nothing, Nothing, Nothing)}
    \cup {AgentAction("dodge", None, Nothing, Nothing, Some(p)) : p \in MoveCells}
    \cup {AgentAction("move", None, Nothing, Nothing, Some(p)) : p \in MoveCells}
    \cup {AgentAction("attack", n, Some(t), Nothing, Nothing) :
            n \in OwnActionNames(c), t \in Ids}
    \cup {AgentAction("move_and_attack", n, Some(t), Nothing, Some(p)) :
            n \in OwnActionNames(c), t \in Ids, p \in MoveCells}
    \cup {AgentAction("aoe", n, Nothing, p, Nothing) :
            n \in OwnActionNames(c), p \in Opt(Cells)}
    \cup {AgentAction("attack", n, Some(c), Nothing, Some(p)) :
            n \in OwnActionNames(c), p \in MoveCells}
    \cup {AgentAction("move_and_attack", n, Some(c), Nothing, Nothing) :
            n \in OwnActionNames(c)}
    \cup {AgentAction("attack", n, Nothing, Nothing, Nothing) : n \in OwnActionNames(c)}
    \cup {AgentAction("attack", None, Some(c), Nothing, Nothing),
          AgentAction("attack", "Unknown", Some(c), Nothing, Nothing),
          AgentAction("move", None, Nothing, Nothing, Nothing),
          AgentAction("aoe", None, Nothing, Nothing, Nothing),
          AgentAction("aoe", "Unknown", Nothing, Nothing, Nothing)}

\* ------------------------------------------------------ CombatState
\* next_turn: advance the pointer; wrapping starts a round and resets
\* reactions.  The fields of the new state that can differ.
next_turn(ct, rd, used) ==
    IF ct + 1 >= Len(initiative_order)
    THEN [current_turn |-> 0, round |-> rd + 1, reaction_used |-> {}]
    ELSE [current_turn |-> ct + 1, round |-> rd, reaction_used |-> used]

\* set_reaction_used
set_reaction_used(used, c) == used \cup {c}

\* update_creature(c, current_hp=new_hp)
update_hp(h, c, new_hp) == [h EXCEPT ![c] = new_hp]

\* update_creature(c, position=p)
update_position(ps, c, p) == [ps EXCEPT ![c] = p]

\* ------------------------------------------------------ run_combat control
\* The creature whose iteration of the turn loop is running.
cid == initiative_order[i]

\* Variant of the round loop that runs one round too many.
RoundsLeft_OneMore == rounds <= MaxRounds

\* `for r in range(max_rounds)` has another iteration.
RoundsLeft == rounds < MaxRounds

\* Variant of the turn loop without the skip.
IsDown_Never(c) == FALSE

\* Variant of the skip that lets a creature at exactly 0 HP act.
IsDown_BelowZero(c) == hp[c] < 0

\* `if c.current_hp <= 0: continue` at the top of the turn loop.
IsDown(c) == hp[c] <= 0

\* Variant of log_combat_end that logs the strategy evolution last.
log_combat_end_StrategyLast(won, rounds_run, evolves) ==
    <<[entry |-> "combat_over", winner |-> won, rounds |-> rounds_run]>>
      \o (IF evolves THEN <<[entry |-> "strategy_evolution"]>> ELSE <<>>)

\* logger.log_combat_end(winner, rounds): the entries it appends.  The
\* strategy evolution of the last round comes first when the agent recorded
\* one (`evolves`), then "Combat Over. Winner: {winner} in {rounds} rounds".
log_combat_end(won, rounds_run, evolves) ==
    (IF evolves THEN <<[entry |-> "strategy_evolution"]>> ELSE <<>>)
      \o <<[entry |-> "combat_over", winner |-> won, rounds |-> rounds_run]>>

\* Leaving the turn loop by `break`, then the round loop's own check
\* `if is_combat_over(state): break` and get_winner.
Break(h) ==
    IF is_combat_over(h)
    THEN /\ pc' = "done"
         /\ winner' = get_winner(h)
         /\ \E evolves \in BOOLEAN :
               entries_tail' = log_combat_end(get_winner(h), rounds, evolves)
         /\ i' = i
    ELSE /\ pc' = "round"
         /\ winner' = winner
         /\ entries_tail' = entries_tail
         /\ i' = i

\* Going on to the next iteration of the turn loop (`continue` or the end of
\* the body); after the last creature the round loop's check runs.
Continue(h) ==
    IF i < Len(initiative_order)
    THEN /\ pc' = "turn"
         /\ i' = i + 1
         /\ winner' = winner
         /\ entries_tail' = entries_tail
    ELSE Break(h)

\* Variant of the turn loop without its combat-over checks.
CombatOverCheck_Never(h) == FALSE

\* The check `if is_combat_over(state): break` that follows next_turn and
\* that follows _resolve_opportunity_attacks.
CombatOverCheck(h) == is_combat_over(h)

\* The body of the turn loop has resolved the action: the creature map and
\* the reactions it leaves, and how it leaves the body: "next_turn" (falls
\* through to next_turn and the combat-over check), "continue" or "break".
TurnEnds(h, p, used, leave) ==
    /\ hp' = h
    /\ pos' = p
    /\ reaction_used' = used
    /\ how' = leave
    /\ pc' = "end_turn"
    /\ UNCHANGED <<current_turn, round, i, winner, entries_tail>>

\* `state = state.next_turn(); if is_combat_over(state): break`, else the
\* next creature.
AdvanceTurn ==
    /\ pc = "end_turn"
    /\ how = "next_turn"
    /\ LET nt == next_turn(current_turn, round, reaction_used)
       IN  /\ current_turn' = nt.current_turn
           /\ round' = nt.round
           /\ reaction_used' = nt.reaction_used
    /\ IF CombatOverCheck(hp) THEN Break(hp) ELSE Continue(hp)
    /\ action' = NoAction
    /\ how' = None
    /\ oa_log' = <<>>
    /\ atk_log' = <<>>
    /\ save_log' = <<>>
    /\ UNCHANGED <<hp, pos, initiative_rolls, initiative_order, rounds, asked, oa_made>>
    /\ UNCHANGED <<team, is_over, state_winner, rules_vars, sim_vars, agent_vars>>

\* `continue` after the mover was dropped: no next_turn.
ContinueLoop ==
    /\ pc = "end_turn"
    /\ how = "continue"
    /\ Continue(hp)
    /\ action' = NoAction
    /\ how' = None
    /\ oa_log' = <<>>
    /\ atk_log' = <<>>
    /\ save_log' = <<>>
    /\ UNCHANGED <<hp, pos, initiative_rolls, initiative_order, current_turn, round,
                   reaction_used, rounds, asked, oa_made>>
    /\ UNCHANGED <<team, is_over, state_winner, rules_vars, sim_vars, agent_vars>>

\* `break` after the opportunity attacks ended the combat: no next_turn.
BreakLoop ==
    /\ pc = "end_turn"
    /\ how = "break"
    /\ Break(hp)
    /\ action' = NoAction
    /\ how' = None
    /\ oa_log' = <<>>
    /\ atk_log' = <<>>
    /\ save_log' = <<>>
    /\ UNCHANGED <<hp, pos, initiative_rolls, initiative_order, current_turn, round,
                   reaction_used, rounds, asked, oa_made>>
    /\ UNCHANGED <<team, is_over, state_winner, rules_vars, sim_vars, agent_vars>>

\* The initiative order is sorted from the rolls and the CombatState is built.
StartCombat ==
    /\ pc = "start"
    /\ initiative_order' = SortIds(initiative_rolls, Ids)
    /\ pc' = "round"
    /\ UNCHANGED <<initiative_rolls, hp, pos, current_turn, round, reaction_used, rounds, i,
                   winner, entries_tail, asked, oa_made, action, how, oa_log, atk_log, save_log>>
    /\ UNCHANGED <<team, is_over, state_winner, rules_vars, sim_vars, agent_vars>>

\* for r in range(max_rounds): rounds += 1.  The initiative rolls are not read
\* once the rounds run.
BeginRound ==
    /\ pc = "round"
    /\ RoundsLeft
    /\ rounds' = rounds + 1
    /\ pc' = "turn"
    /\ i' = 1
    /\ asked' = <<>>
    /\ oa_made' = [c \in Ids |-> 0]
    /\ initiative_rolls' = <<>>
    /\ UNCHANGED <<hp, pos, initiative_order, current_turn, round,
                   reaction_used, winner, entries_tail, action, how, oa_log, atk_log, save_log>>
    /\ UNCHANGED <<team, is_over, state_winner, rules_vars, sim_vars, agent_vars>>

\* The round loop is exhausted: winner = get_winner(state).
MaxRoundsReached ==
    /\ pc = "round"
    /\ ~RoundsLeft
    /\ pc' = "done"
    /\ winner' = get_winner(hp)
    /\ \E evolves \in BOOLEAN :
          entries_tail' = log_combat_end(get_winner(hp), rounds, evolves)
    /\ UNCHANGED <<hp, pos, initiative_rolls, initiative_order, current_turn, round,
                   reaction_used, rounds, i, asked, oa_made, action, how, oa_log,
                   atk_log, save_log>>
    /\ UNCHANGED <<team, is_over, state_winner, rules_vars, sim_vars, agent_vars>>

\* Skip dead creatures.
SkipDead ==
    /\ pc = "turn"
    /\ IsDown(cid)
    /\ Continue(hp)
    /\ UNCHANGED <<hp, pos, initiative_rolls, initiative_order, current_turn, round,
                   reaction_used, rounds, asked, oa_made, action, how, oa_log, atk_log, save_log>>
    /\ UNCHANGED <<team, is_over, state_winner, rules_vars, sim_vars, agent_vars>>

\* ------------------------------------------------------ terrain.py, cover.py
\* A CoverZone given by its cells, or by the corners of a rectangle.
ZoneOfCells(type, cells) ==
    [type |-> type, cells |-> Some(cells), from_pos |-> Nothing, to_pos |-> Nothing]

ZoneOfRectangle(type, from_pos, to_pos) ==
    [type |-> type, cells |-> Nothing, from_pos |-> Some(from_pos), to_pos |-> Some(to_pos)]

Min(a, b) == IF a <= b THEN a ELSE b

\* CoverZone.cell_set.
cell_set(zone) ==
    IF zone.cells # Nothing /\ Val(zone.cells) # {} THEN Val(zone.cells)
    ELSE IF zone.from_pos # Nothing /\ zone.to_pos # Nothing
    THEN LET f == Val(zone.from_pos)
             t == Val(zone.to_pos)
         IN  {<<x, y>> : x \in Min(f[1], t[1]) .. Max(f[1], t[1]),
                         y \in Min(f[2], t[2]) .. Max(f[2], t[2])}
    ELSE {}

\* Terrain.all_cover_cells: the loop over the zones from zone k on, result
\* being the map built so far.
RECURSIVE CoverCellsFrom(_, _, _)
CoverCellsFrom(zones, k, result) ==
    IF k > Len(zones) THEN result
    ELSE LET zone == zones[k]
             cells == cell_set(zone)
         IN  CoverCellsFrom(zones, k + 1,
                [c \in DOMAIN result \cup cells |->
                    IF c \in cells /\ (c \notin DOMAIN result \/ zone.type = "three-quarters")
                    THEN zone.type ELSE result[c]])

all_cover_cells(zones) == CoverCellsFrom(zones, 1, <<>>)

\* _cells_on_path: the cells stepped on from (cx, cy) to b, the x coordinate
\* first, b itself left out.
RECURSIVE PathFrom(_, _, _)
PathFrom(cx, cy, b) ==
    IF <<cx, cy>> = b THEN <<>>
    ELSE LET nx == IF cx < b[1] THEN cx + 1 ELSE IF cx > b[1] THEN cx - 1 ELSE cx
             ny == IF cx # b[1] THEN cy
                   ELSE IF cy < b[2] THEN cy + 1 ELSE IF cy > b[2] THEN cy - 1 ELSE cy
         IN  (IF <<nx, ny>> # b THEN <<<<nx, ny>>>> ELSE <<>>) \o PathFrom(nx, ny, b)

cells_on_path(from_pos, to_pos) == PathFrom(from_pos[1], from_pos[2], to_pos)

\* get_cover(attacker_pos, target_pos, terrain); terrain is Nothing for None,
\* or the cover_zones of the Terrain.
get_cover(attacker_pos, target_pos, terrain) ==
    IF attacker_pos = target_pos THEN "none"
    ELSE IF terrain = Nothing \/ Val(terrain) = <<>> THEN "none"
    ELSE LET cover_cells == all_cover_cells(Val(terrain))
             path == cells_on_path(attacker_pos, target_pos)
             on_path == {path[n] : n \in 1 .. Len(path)} \cap DOMAIN cover_cells
         IN  IF DOMAIN cover_cells = {} THEN "none"
             ELSE IF \E c \in on_path : cover_cells[c] = "three-quarters"
             THEN "three-quarters"
             ELSE IF on_path # {} THEN "half"
             ELSE "none"

\* The cover_bonus run_combat and _resolve_opportunity_attacks hand to
\* make_attack_roll for an attacker and a target.
cover_bonus_for(attacker_pos, target_pos, terrain) ==
    IF terrain # Nothing
    THEN LET cover == get_cover(attacker_pos, target_pos, terrain)
         IN  IF cover = "half" THEN 2 ELSE IF cover = "three-quarters" THEN 5 ELSE 0
    ELSE 0

\* The attack roll of the engine: make_attack_roll(atk.attack_bonus, target.ac,
\* None, cover_bonus=cover_bonus).
attack_roll_in_terrain(natural_roll, bonus, ac, attacker_pos, target_pos, terrain) ==
    make_attack_roll(natural_roll, bonus,
                     CoverAdjustedAC(ac, cover_bonus_for(attacker_pos, target_pos, terrain)))

\* ------------------------------------------------------ one attack roll
\* run_combat is called without terrain.
NoTerrain == Nothing

\* What one attack roll with atk against creature t at th hit points can give:
\* whether it hit and the target's HP afterwards (max(0, hp - final_damage) on
\* a hit), as run_combat and _resolve_opportunity_attacks both compute it, the
\* attacker standing at attacker_pos and the target at ps[t].
AttackOutcomes(atk, attacker_pos, ps, t, th) ==
    UNION { LET res == attack_roll_in_terrain(r, atk.attack_bonus, Templates[t].ac,
                                              attacker_pos, ps[t], NoTerrain)
            IN  IF res.is_hit
                THEN {[hit |-> TRUE,
                       hp |-> Max(0, th - apply_damage_modifiers(
                                            dmg, atk.damage_type, Templates[t]))] :
                      dmg \in roll_damage_for_attack(atk.dice, res.is_critical)}
                ELSE {[hit |-> FALSE, hp |-> th]}
          : r \in D20 }

\* ------------------------------------------------------ opportunity attacks
\* The guards of the loop body of _resolve_opportunity_attacks that let enemy
\* e attack the mover moving from from_pos to to_pos, with the reactions used.
OATriggers(e, mover, from_pos, to_pos, used) ==
    /\ e # mover
    /\ ~(hp[e] <= 0 \/ team[e] = team[mover])
    /\ e \notin used
    /\ ~(distance_in_feet(from_pos, pos[e]) > get_melee_reach(Templates[e]))
    /\ ~(distance_in_feet(to_pos, pos[e]) <= get_melee_reach(Templates[e]))
    /\ first_melee_attack(Templates[e]) # Nothing

\* `if state.creatures[mover_id].current_hp <= 0 or is_combat_over(state): break`
OABreaks(h, mover) == h[mover] <= 0 \/ is_combat_over(h)

\* _resolve_opportunity_attacks from the jj-th entry of the initiative order
\* on, the mover at mh hit points: the results it can return, as the mover's
\* HP, the reactions used and the rolls made (enemy, mover's HP after).
RECURSIVE resolve_opportunity_attacks(_, _, _, _, _, _)
resolve_opportunity_attacks(jj, mover, to_pos, mh, used, log) ==
    IF jj > Len(initiative_order)
    THEN {[hp |-> mh, used |-> used, log |-> log]}
    ELSE LET e == initiative_order[jj]
         IN  IF ~OATriggers(e, mover, pos[mover], to_pos, used)
             THEN resolve_opportunity_attacks(jj + 1, mover, to_pos, mh, used, log)
             ELSE UNION {
                    LET used2 == set_reaction_used(used, e)
                        log2 == Append(log, [enemy |-> e, hp |-> o.hp])
                    IN  IF OABreaks(update_hp(hp, mover, o.hp), mover)
                        THEN {[hp |-> o.hp, used |-> used2, log |-> log2]}
                        ELSE resolve_opportunity_attacks(jj + 1, mover, to_pos, o.hp,
                                                         used2, log2)
                    : o \in AttackOutcomes(Val(first_melee_attack(Templates[e])),
                                           pos[e], pos, mover, mh) }

\* ------------------------------------------------------ sub-attacks
\* Variant of the sub-attack loop that keeps attacking a downed target.
TargetDown_Never(h, t) == FALSE

\* `if target.current_hp <= 0: break` inside the sub-attack loop.
TargetDown(h, t) == h[t] <= 0

\* The sub-attack loop from the kk-th Attack entry on: the creature maps it
\* can leave and the rolls made (entry index, target's HP before).
RECURSIVE resolve_attacks(_, _, _, _, _, _, _)
resolve_attacks(attacks, kk, c, ps, t, h, log) ==
    IF kk > Len(attacks) \/ TargetDown(h, t)
    THEN {[hp |-> h, log |-> log]}
    ELSE UNION {
           resolve_attacks(attacks, kk + 1, c, ps, t, update_hp(h, t, o.hp),
                           Append(log, [index |-> kk, hp_before |-> h[t]]))
           : o \in AttackOutcomes(attacks[kk], ps[c], ps, t, h[t]) }

\* The attack part of an attack / move_and_attack turn of creature c: the
\* named Action is looked up and all its attacks are processed.
SubAttacks(c, a, h, ps) ==
    LET obj == find_action(Templates[c], a.attack_name)
    IN  IF obj = Nothing \/ Val(obj).attacks = <<>>
        THEN {[hp |-> h, log |-> <<>>]}
        ELSE resolve_attacks(Val(obj).attacks, 1, c, ps, Val(a.target_id), h, <<>>)

\* ------------------------------------------------------ area of effect
is_aoe(act) == act.area_shape # None /\ act.radius_squares # Nothing

\* The ability score a save uses: getattr(ability_scores, ability, 10).
SaveScore(cr, ability) ==
    IF ability \in {None, "dex"} THEN cr.dex ELSE DefaultAbility

\* `action_obj.save_dc or 14`
SaveDC(act) ==
    IF act.save_dc = Nothing \/ act.save_dc = Some(0) THEN DefaultSaveDC
    ELSE Val(act.save_dc)

\* Creatures collected by _resolve_aoe: alive and within radius of the centre.
AoETargets(center, radius) ==
    {c \in Ids : hp[c] > 0 /\ manhattan_distance(center, pos[c]) <= radius}

\* Outcomes make_saving_throw can report for a target of the AoE.
SaveOutcomes(act, c) ==
    {make_saving_throw(r, ability_modifier(SaveScore(Templates[c], act.save_ability)),
                       SaveDC(act)) : r \in D20}

\* AoEDamaged with the successful save taking the full total.
AoEDamaged_NoHalving(act, c, roll_total, saved) ==
    Max(0, hp[c] - apply_damage_modifiers(roll_total, act.damage_type, Templates[c]))

\* HP of a target after the AoE for one damage total and its save result.
AoEDamaged(act, c, roll_total, saved) ==
    Max(0, hp[c] - apply_damage_modifiers(
                      IF saved THEN FloorHalf(roll_total) ELSE roll_total,
                      act.damage_type, Templates[c]))

\* _resolve_aoe: the creature map after the effect, for one damage total and
\* one save result per target.
resolve_aoe(act, center, roll_total, saved) ==
    IF ~is_aoe(act) \/ act.area_shape # "sphere" \/ ~act.has_damage THEN hp
    ELSE [c \in Ids |->
            IF c \in AoETargets(center, Val(act.radius_squares))
            THEN AoEDamaged(act, c, roll_total, saved[c])
            ELSE hp[c]]

\* The make_saving_throw calls of _resolve_aoe, in the order of state.creatures:
\* who rolled, what the roll decided, and the damage total it was rolled against.
RECURSIVE SavesFrom(_, _, _, _)
SavesFrom(c, targets, roll_total, saved) ==
    IF c > N THEN <<>>
    ELSE (IF c \in targets
          THEN <<[target |-> c, saved |-> saved[c], total |-> roll_total]>>
          ELSE <<>>) \o SavesFrom(c + 1, targets, roll_total, saved)

aoe_saves(act, center, roll_total, saved) ==
    IF ~is_aoe(act) \/ act.area_shape # "sphere" \/ ~act.has_damage THEN <<>>
    ELSE SavesFrom(1, AoETargets(center, Val(act.radius_squares)), roll_total, saved)

\* ------------------------------------------------------ taking a turn
\* `action.action_type == "aoe" and action.attack_name` with an AoE action found.
TakesAoEBranch(a) ==
    /\ a.action_type = "aoe"
    /\ a.attack_name # None
    /\ find_action(Templates[cid], a.attack_name) # Nothing
    /\ is_aoe(Val(find_action(Templates[cid], a.attack_name)))

\* `action.action_type in ("attack", "move_and_attack") and action.target_id`
TakesAttackBranch(a) ==
    /\ ~TakesAoEBranch(a)
    /\ a.action_type \in {"attack", "move_and_attack"}
    /\ a.target_id # Nothing

\* Variant of the move branch that any action with a destination takes.
TakesMoveBranch_AnyType(a) ==
    /\ ~TakesAoEBranch(a)
    /\ ~TakesAttackBranch(a)
    /\ a.move_to # Nothing

\* `elif action.action_type == "move" and action.move_to`
TakesMoveBranch(a) ==
    /\ ~TakesAoEBranch(a)
    /\ ~TakesAttackBranch(a)
    /\ a.action_type = "move"
    /\ a.move_to # Nothing

\* choose_action was called for cid and returned a: the logs of the turn.
Asked(a, oas, atks, saves) ==
    /\ asked' = Append(asked, cid)
    /\ action' = a
    /\ oa_log' = oas
    /\ atk_log' = atks
    /\ save_log' = saves
    /\ oa_made' = [c \in Ids |->
                     oa_made[c] + Cardinality({n \in 1 .. Len(oas) : oas[n].enemy = c})]

\* choose_action returns an AoE action: resolve it, advance the turn.  Only the
\* targets roll a save.
TurnAoE ==
    /\ pc = "turn"
    /\ ~IsDown(cid)
    /\ \E a \in AgentActions(cid) :
         /\ TakesAoEBranch(a)
         /\ LET act == Val(find_action(Templates[cid], a.attack_name))
                center == IF a.target_position # Nothing
                          THEN Val(a.target_position) ELSE pos[cid]
            IN  \E roll_total \in roll_damage_for_attack(act.dice, FALSE) :
                \E saved \in [Ids -> BOOLEAN] :
                   /\ \A c \in Ids :
                         saved[c] \in IF c \in AoETargets(center, Val(act.radius_squares))
                                      THEN SaveOutcomes(act, c)
                                      ELSE {FALSE}
                   /\ TurnEnds(resolve_aoe(act, center, roll_total, saved), pos,
                               reaction_used, "next_turn")
                   /\ Asked(a, <<>>, <<>>, aoe_saves(act, center, roll_total, saved))
    /\ UNCHANGED <<initiative_rolls, initiative_order, rounds>>
    /\ UNCHANGED <<team, is_over, state_winner, rules_vars, sim_vars, agent_vars>>

\* choose_action returns an attack without movement.
TurnAttack ==
    /\ pc = "turn"
    /\ ~IsDown(cid)
    /\ \E a \in AgentActions(cid) :
         /\ TakesAttackBranch(a)
         /\ a.move_to = Nothing
         /\ \E res \in SubAttacks(cid, a, hp, pos) :
              /\ TurnEnds(res.hp, pos, reaction_used, "next_turn")
              /\ Asked(a, <<>>, res.log, <<>>)
    /\ UNCHANGED <<initiative_rolls, initiative_order, rounds>>
    /\ UNCHANGED <<team, is_over, state_winner, rules_vars, sim_vars, agent_vars>>

\* Variant of the move that completes although the mover was dropped.
MoverDropped_Never(h, mover) == FALSE

\* `if state.creatures[cid].current_hp <= 0: continue` after the opportunity
\* attacks: the move does not complete.
MoverDropped(h, mover) == h[mover] <= 0

\* A turn that starts with movement: opportunity attacks, then the checks, the
\* new position and, for an attack action, the sub-attacks.
MovingTurn(a) ==
    \E oa \in resolve_opportunity_attacks(1, cid, Val(a.move_to), hp[cid],
                                          reaction_used, <<>>) :
       LET h1 == update_hp(hp, cid, oa.hp)
           moved == update_position(pos, cid, Val(a.move_to))
       IN  IF CombatOverCheck(h1)
           THEN /\ TurnEnds(h1, pos, oa.used, "break")
                /\ Asked(a, oa.log, <<>>, <<>>)
           ELSE IF MoverDropped(h1, cid)
           THEN /\ TurnEnds(h1, pos, oa.used, "continue")
                /\ Asked(a, oa.log, <<>>, <<>>)
           ELSE IF TakesAttackBranch(a)
           THEN \E res \in SubAttacks(cid, a, h1, moved) :
                   /\ TurnEnds(res.hp, moved, oa.used, "next_turn")
                   /\ Asked(a, oa.log, res.log, <<>>)
           ELSE /\ TurnEnds(h1, moved, oa.used, "next_turn")
                /\ Asked(a, oa.log, <<>>, <<>>)

\* choose_action returns an attack or move_and_attack with move_to.
TurnMoveAttack ==
    /\ pc = "turn"
    /\ ~IsDown(cid)
    /\ \E a \in AgentActions(cid) :
         /\ TakesAttackBranch(a)
         /\ a.move_to # Nothing
         /\ MovingTurn(a)
    /\ UNCHANGED <<initiative_rolls, initiative_order, rounds>>
    /\ UNCHANGED <<team, is_over, state_winner, rules_vars, sim_vars, agent_vars>>

\* choose_action returns a move.
TurnMove ==
    /\ pc = "turn"
    /\ ~IsDown(cid)
    /\ \E a \in AgentActions(cid) :
         /\ TakesMoveBranch(a)
         /\ MovingTurn(a)
    /\ UNCHANGED <<initiative_rolls, initiative_order, rounds>>
    /\ UNCHANGED <<team, is_over, state_winner, rules_vars, sim_vars, agent_vars>>

\* choose_action returns anything else (dodge, death_save, a move without
\* move_to, an attack without target, an AoE the creature does not have).
TurnOther ==
    /\ pc = "turn"
    /\ ~IsDown(cid)
    /\ \E a \in AgentActions(cid) :
         /\ ~TakesAoEBranch(a)
         /\ ~TakesAttackBranch(a)
         /\ ~TakesMoveBranch(a)
         /\ TurnEnds(hp, pos, reaction_used, "next_turn")
         /\ Asked(a, <<>>, <<>>, <<>>)
    /\ UNCHANGED <<initiative_rolls, initiative_order, rounds>>
    /\ UNCHANGED <<team, is_over, state_winner, rules_vars, sim_vars, agent_vars>>

Next ==
    \/ StartCombat
    \/ BeginRound
    \/ MaxRoundsReached
    \/ SkipDead
    \/ AdvanceTurn
    \/ ContinueLoop
    \/ BreakLoop
    \/ TurnAoE
    \/ TurnAttack
    \/ TurnMoveAttack
    \/ TurnMove
    \/ TurnOther

Spec == Init /\ [][Next]_vars

\* ------------------------------------------------------ three sides
\* The same creatures with the archer on a side of its own.
ThreeTeams == [c \in Ids |-> IF c = 2 THEN "neutral" ELSE Templates[c].team]

ThreeTeamInit == InitWithTeams(ThreeTeams)

\* run_combat on creatures of three team tags.
ThreeTeamSpec == ThreeTeamInit /\ [][Next]_vars

\* ====================================================== the rules library
\* The functions of rules.py, victory.py, cover.py and combat_state.py as
\* their callers outside run_combat use them: probe holds the arguments of a
\* call, a step makes the call and out holds what it returned.

\* Bounds of the arguments drawn.
MaxBonus == 5
MaxAC == 25
MaxDamage == 5
MaxCreatures == 3

\* ------------------------------------------------------ make_attack_roll
AttackProbes ==
    [fn : {"make_attack_roll"}, natural_roll : D20,
     attack_bonus : (-MaxBonus) .. MaxBonus, target_ac : 1 .. MaxAC]

CallMakeAttackRoll ==
    /\ probe.fn = "make_attack_roll"
    /\ out = Nothing
    /\ out' = Some(make_attack_roll(probe.natural_roll, probe.attack_bonus,
                                    probe.target_ac))
    /\ UNCHANGED <<probe, objects, states, engine_vars, agent_vars, sim_vars>>

\* ------------------------------------------------------ apply_damage_modifiers
DamageTypes == {"fire", "cold"}

\* The three lists of a creature that apply_damage_modifiers reads.
Resistances ==
    [damage_immunities : SUBSET DamageTypes,
     damage_resistances : SUBSET DamageTypes,
     damage_vulnerabilities : SUBSET DamageTypes]

DamageProbes ==
    [fn : {"apply_damage_modifiers"}, damage : (-1) .. MaxDamage,
     damage_type : DamageTypes, creature : Resistances]

CallApplyDamageModifiers ==
    /\ probe.fn = "apply_damage_modifiers"
    /\ out = Nothing
    /\ out' = Some(apply_damage_modifiers(probe.damage, probe.damage_type,
                                          probe.creature))
    /\ UNCHANGED <<probe, objects, states, engine_vars, agent_vars, sim_vars>>

\* ------------------------------------------------------ is_combat_over, get_winner
TeamTags == {"party", "enemy", "neutral"}

HpValues == (-1) .. 1

\* States of 0 to MaxCreatures creatures, each with a team tag and an HP value.
VictoryProbes ==
    UNION { [fn : {"victory"}, teams : [1 .. n -> TeamTags], hps : [1 .. n -> HpValues]]
            : n \in 0 .. MaxCreatures }

CallVictory ==
    /\ probe.fn = "victory"
    /\ out = Nothing
    /\ out' = Some([is_combat_over |-> is_combat_over_of(probe.teams, probe.hps),
                    get_winner |-> get_winner_of(probe.teams, probe.hps)])
    /\ UNCHANGED <<probe, objects, states, engine_vars, agent_vars, sim_vars>>

\* ------------------------------------------------------ attacks on a terrain
\* The battlefield of the cover probes: two rows of GridW cells.
CoverGrid == (0 .. (GridW - 1)) \X (0 .. 1)

\* Cover zones in the middle of the battlefield.
Zones ==
    {ZoneOfCells("half", {<<1, 0>>}), ZoneOfCells("half", {<<1, 1>>}),
     ZoneOfCells("three-quarters", {<<1, 1>>}),
     ZoneOfRectangle("three-quarters", <<1, 1>>, <<1, 0>>)}

\* No terrain, a terrain without zones, or one with up to two zones.
Terrains ==
    {Nothing} \cup {Some(z) : z \in {<<>>} \cup {<<a>> : a \in Zones}
                                       \cup {<<a, b>> : a \in Zones, b \in Zones}}

\* An attack of the engine on a battlefield with terrain.
CoverProbes ==
    [fn : {"attack_roll"}, natural_roll : D20, attack_bonus : {0, MaxBonus},
     target_ac : {12}, attacker_pos : CoverGrid, target_pos : CoverGrid,
     terrain : Terrains]

CallAttackRollInTerrain ==
    /\ probe.fn = "attack_roll"
    /\ out = Nothing
    /\ out' = Some(attack_roll_in_terrain(probe.natural_roll, probe.attack_bonus,
                                           probe.target_ac, probe.attacker_pos,
                                           probe.target_pos, probe.terrain))
    /\ UNCHANGED <<probe, objects, states, engine_vars, agent_vars, sim_vars>>

\* ------------------------------------------------------ roll_damage_for_attack
\* Bounds of the dice expressions rolled on their own.
MaxDice == 2
MaxDie == 3
MaxModifier == 2

\* The text of a damage expression as its tokens: "NdM", "NdM+K", "NdM-K", or
\* the digits "K" of a flat expression (n = 0).
dice_string(n, m, k) ==
    IF n = 0 THEN <<k>>
    ELSE <<n, "d", m>> \o (IF k > 0 THEN <<"+", k>>
                           ELSE IF k < 0 THEN <<"-", -k>> ELSE <<>>)

\* parse_dice_expression(dice_str): (num_dice, die_size, modifier).
parse_dice_expression(dice_str) ==
    IF Len(dice_str) = 1
    THEN Dice(0, 0, dice_str[1])
    ELSE IF Len(dice_str) >= 3 /\ dice_str[2] = "d"
    THEN Dice(dice_str[1], dice_str[3],
              IF Len(dice_str) = 5
              THEN (IF dice_str[4] = "+" THEN dice_str[5] ELSE -dice_str[5])
              ELSE 0)
    ELSE Dice(0, 0, 1)

\* The totals d20.roll(dice_expr) can give: the library reads the digits of a
\* flat expression as that number, and "NdM" with a signed number after it as
\* N dice of M faces plus that number.
d20_roll(dice_expr) ==
    IF Len(dice_expr) = 1 THEN {dice_expr[1]}
    ELSE {total + (IF Len(dice_expr) = 5
                   THEN (IF dice_expr[4] = "+" THEN dice_expr[5] ELSE -dice_expr[5])
                   ELSE 0) : total \in roll_dice(dice_expr[1], dice_expr[3])}

\* Variant of roll_damage_for_attack that doubles the modifier with the dice.
roll_damage_for_attack_str_DoublesModifier(damage_dice_str, is_critical) ==
    IF is_critical
    THEN LET parsed == parse_dice_expression(damage_dice_str)
         IN  IF parsed.n > 0 /\ parsed.m > 0
             THEN d20_roll(dice_string(parsed.n * 2, parsed.m, parsed.k * 2))
             ELSE {parsed.k}
    ELSE d20_roll(damage_dice_str)

\* roll_damage_for_attack(damage_dice_str, is_critical) on the text of the
\* expression: the totals it can return.
roll_damage_for_attack_str(damage_dice_str, is_critical) ==
    IF is_critical
    THEN LET parsed == parse_dice_expression(damage_dice_str)
         IN  IF parsed.n > 0 /\ parsed.m > 0
             THEN d20_roll(dice_string(parsed.n * 2, parsed.m, parsed.k))
             ELSE {parsed.k}
    ELSE d20_roll(damage_dice_str)

\* Expressions NdM, NdM+K and NdM-K, and flat expressions K (n = 0, m = 0).
DiceProbes ==
    {p \in [fn : {"roll_damage_for_attack"}, n : 0 .. MaxDice, m : 0 .. MaxDie,
            k : (-MaxModifier) .. MaxModifier, is_critical : BOOLEAN] :
        IF p.n = 0 THEN p.m = 0 /\ p.k >= 0 ELSE p.m >= 1}

CallRollDamageForAttack ==
    /\ probe.fn = "roll_damage_for_attack"
    /\ out = Nothing
    /\ \E total \in roll_damage_for_attack_str(dice_string(probe.n, probe.m, probe.k),
                                               probe.is_critical) :
          out' = Some(total)
    /\ UNCHANGED <<probe, objects, states, engine_vars, agent_vars, sim_vars>>

\* ------------------------------------------------------ damage breakdown
\* Bounds of the combat events of a logger handed to _extract_damage_breakdown.
MaxEvents == 2
MaxDealt == 2

\* A log entry is the sequence of its words; a word is a text or a number.
Word(text) == [w |-> text, n |-> 0]
Num(amount) == [w |-> "#", n |-> amount]

\* A hit in a combat: a direct attack (log_attack, log_damage), an opportunity
\* attack (log_opportunity_attack, log_damage) or the damage of an AoE on one
\* creature (the two logger.log lines of _resolve_aoe).
CombatEvents ==
    [kind : {"attack", "opportunity_attack", "aoe"}, by : {"Fighter", "Ogre"},
     amount : 1 .. MaxDealt, modifier_applied : {None, "resistance"}]

\* The other creature of the two.
Opponent(name) == IF name = "Fighter" THEN "Ogre" ELSE "Fighter"

\* log_damage(target_name, amount, damage_type, modifier_applied, remaining_hp)
damage_line(target_name, amount, modifier_applied) ==
    IF modifier_applied = "resistance"
    THEN <<Num(amount), Word("slashing"), Word("damage"), Word("(resisted,"),
           Word("halved)"), Word("->"), Word(target_name), Word("HP:")>>
    ELSE <<Num(amount), Word("slashing"), Word("damage"), Word("->"),
           Word(target_name), Word("HP:")>>

\* The entries the engine logs for one hit.
event_entries(e) ==
    CASE e.kind = "attack" ->
           <<<<Word(e.by), Word("attacks"), Word(Opponent(e.by)), Word("with"),
               Word("Weapon:"), Word("Hit!")>>,
             damage_line(Opponent(e.by), e.amount, e.modifier_applied)>>
      [] e.kind = "opportunity_attack" ->
           <<<<Word(e.by), Word("opportunity"), Word("attack"), Word("on"),
               Word(Opponent(e.by)), Word("with"), Word("Weapon:"), Word("Hit!")>>,
             damage_line(Opponent(e.by), e.amount, e.modifier_applied)>>
      [] e.kind = "aoe" ->
           <<<<Word(e.by), Word("casts"), Word("Fireball"), Word("at"), Word("A1")>>,
             <<Word(Opponent(e.by)), Word("failed:"), Num(e.amount), Word("fire"),
               Word("damage")>>
               \o (IF e.modifier_applied = None THEN <<>>
                   ELSE <<Word("(resistance)")>>)
               \o <<Word("->"), Word("HP:")>>>>

RECURSIVE logger_entries(_)
logger_entries(events) ==
    IF events = <<>> THEN <<>>
    ELSE event_entries(Head(events)) \o logger_entries(Tail(events))

\* `text in entry` for a text of one word, and for "damage ->".
HasWord(entry, text) == \E k \in 1 .. Len(entry) : entry[k] = Word(text)
HasDamageArrow(entry) ==
    \E k \in 1 .. (Len(entry) - 1) : entry[k] = Word("damage") /\ entry[k + 1] = Word("->")

\* _extract_damage_breakdown for one logger: the loop over logger.entries with
\* its current_attacker; by_creature read with 0 for a missing key.
RECURSIVE extract_damage_breakdown(_, _, _)
extract_damage_breakdown(entries, current_attacker, found) ==
    IF entries = <<>> THEN found
    ELSE LET entry == Head(entries)
         IN  IF HasWord(entry, "attacks") /\ HasWord(entry, "with")
             THEN extract_damage_breakdown(Tail(entries), entry[1].w, found)
             ELSE IF /\ HasDamageArrow(entry)
                     /\ current_attacker # None
                     /\ ~HasWord(entry, "immune")
                     /\ entry[1].w = "#"
             THEN extract_damage_breakdown(
                      Tail(entries), current_attacker,
                      [by_creature |->
                          [found.by_creature EXCEPT ![current_attacker] = @ + entry[1].n],
                       total_damage |-> found.total_damage + entry[1].n])
             ELSE extract_damage_breakdown(Tail(entries), current_attacker, found)

BreakdownProbes ==
    [fn : {"extract_damage_breakdown"},
     events : UNION {[1 .. len -> CombatEvents] : len \in 0 .. MaxEvents}]

CallExtractDamageBreakdown ==
    /\ probe.fn = "extract_damage_breakdown"
    /\ out = Nothing
    /\ out' = Some(extract_damage_breakdown(
                       logger_entries(probe.events), None,
                       [by_creature |-> [name \in {"Fighter", "Ogre"} |-> 0],
                        total_damage |-> 0]))
    /\ UNCHANGED <<probe, objects, states, engine_vars, agent_vars, sim_vars>>

\* ------------------------------------------------------ make_death_save
MaxFailures == 4

\* The fields of a Creature that make_death_save reads and writes.
Dying(current_hp, successes, failures, stable) ==
    [current_hp |-> current_hp, successes |-> successes, failures |-> failures,
     stable |-> stable]

\* Variant of make_death_save that counts a natural 1 as one failure.
make_death_save_OneFailure(creature, roll) ==
    IF roll = 20 THEN Dying(1, 0, 0, TRUE)
    ELSE IF roll >= 10
    THEN IF creature.successes + 1 >= 3
         THEN Dying(creature.current_hp, 0, 0, TRUE)
         ELSE Dying(creature.current_hp, creature.successes + 1, creature.failures, FALSE)
    ELSE Dying(creature.current_hp, creature.successes, creature.failures + 1,
               creature.failures + 1 < 3)

\* make_death_save(creature) for the roll the d20 gives: the creature as the
\* call leaves it.
make_death_save(creature, roll) ==
    IF roll = 20 THEN Dying(1, 0, 0, TRUE)
    ELSE IF roll = 1
    THEN Dying(creature.current_hp, creature.successes, creature.failures + 2,
               creature.failures + 2 < 3)
    ELSE IF roll >= 10
    THEN IF creature.successes + 1 >= 3
         THEN Dying(creature.current_hp, 0, 0, TRUE)
         ELSE Dying(creature.current_hp, creature.successes + 1, creature.failures, FALSE)
    ELSE Dying(creature.current_hp, creature.successes, creature.failures + 1,
               creature.failures + 1 < 3)

\* A creature at 0 HP that has made no death save yet.
DeathSaveProbes == [fn : {"make_death_save"}, creature : {Dying(0, 0, 0, FALSE)}]

\* One more death save of the creature: probe holds the creature as the call
\* found it, out the roll and the creature as the call left it.
CallMakeDeathSave ==
    /\ probe.fn = "make_death_save"
    /\ LET creature == IF out = Nothing THEN probe.creature ELSE Val(out).creature
       IN  /\ creature.failures < MaxFailures
           /\ \E roll \in D20 :
                 /\ probe' = [probe EXCEPT !.creature = creature]
                 /\ out' = Some([roll |-> roll,
                                 creature |-> make_death_save(creature, roll)])
    /\ UNCHANGED <<objects, states, engine_vars, agent_vars, sim_vars>>

\* ------------------------------------------------------ combat_state.py
\* CombatState objects and what they refer to.  A CombatState holds references
\* to its creatures dict, its initiative_order list and its combat_log list;
\* a dict holds references to Creature objects; reaction_used is a frozenset,
\* a value.  objects.creatures, objects.dicts and objects.lists are the
\* objects allocated so far, a reference being an index.
MaxStates == 3

\* The heap h with one more object of kind k.
Alloc(h, k, obj) == [h EXCEPT ![k] = Append(h[k], obj)]

\* The reference to the object Alloc has just added to the heap h.
Newest(h, k) == Len(h[k])

\* dataclasses.replace(st, ...): a new CombatState with the same references
\* except for the fields given.
Replaced(h, st) == [objects |-> h, state |-> st]

\* update_creature(creature_id, **updates): the updates are a new current_hp,
\* a new position, or both.
update_creature(h, st, creature_id, updates) ==
    LET creature == h.creatures[h.dicts[st.creatures][creature_id]]
        updated_creature ==
            [current_hp |-> IF updates.current_hp # Nothing
                            THEN Val(updates.current_hp) ELSE creature.current_hp,
             position |-> IF updates.position # Nothing
                          THEN Val(updates.position) ELSE creature.position]
        h1 == Alloc(h, "creatures", updated_creature)
        new_creatures == [h.dicts[st.creatures] EXCEPT
                             ![creature_id] = Newest(h1, "creatures")]
        h2 == Alloc(h1, "dicts", new_creatures)
    IN  Replaced(h2, [st EXCEPT !.creatures = Newest(h2, "dicts")])

\* Variant of add_log that appends to the list of the state it is called on.
add_log_InPlace(h, st, message) ==
    Replaced([h EXCEPT !.lists[st.combat_log] = Append(@, message)], st)

\* add_log(message): `new_log = self.combat_log + [message]`.
add_log(h, st, message) ==
    LET h1 == Alloc(h, "lists", Append(h.lists[st.combat_log], message))
    IN  Replaced(h1, [st EXCEPT !.combat_log = Newest(h1, "lists")])

\* CombatState.set_reaction_used(creature_id).
state_set_reaction_used(h, st, creature_id) ==
    Replaced(h, [st EXCEPT !.reaction_used = set_reaction_used(@, creature_id)])

\* Variant of next_turn that keeps the reactions of the round that ended.
state_next_turn_KeepsReactions(h, st) ==
    IF st.current_turn + 1 >= Len(h.lists[st.initiative_order])
    THEN Replaced(h, [st EXCEPT !.current_turn = 0, !.round = @ + 1])
    ELSE Replaced(h, [st EXCEPT !.current_turn = @ + 1])

\* CombatState.next_turn().
state_next_turn(h, st) ==
    IF st.current_turn + 1 >= Len(h.lists[st.initiative_order])
    THEN Replaced(h, [st EXCEPT !.current_turn = 0, !.round = @ + 1,
                                !.reaction_used = {}])
    ELSE Replaced(h, [st EXCEPT !.current_turn = @ + 1])

\* end_combat(winner).
end_combat(h, st, won) ==
    Replaced(h, [st EXCEPT !.is_over = TRUE, !.winner = won])

\* The state S the calls start from has p.n creatures, is at turn
\* p.current_turn of its first round, and p.reaction_used have reacted.
StateProbes ==
    {p \in [fn : {"CombatState"}, n : 1 .. 2, current_turn : 0 .. 1,
            reaction_used : SUBSET (1 .. 2)] :
        p.current_turn < p.n /\ p.reaction_used \subseteq 1 .. p.n}

\* The heap of the state S: the creatures, their dict, the initiative order
\* and an empty combat log.
FirstObjects(p) ==
    [creatures |-> SubSeq(<<[current_hp |-> 1, position |-> <<0, 0>>],
                            [current_hp |-> 2, position |-> <<1, 0>>]>>, 1, p.n),
     dicts |-> << [c \in 1 .. p.n |-> c] >>,
     lists |-> << [c \in 1 .. p.n |-> c], <<>> >>]

\* CombatState(creatures=..., initiative_order=..., current_turn=...,
\* reaction_used=...): the defaults elsewhere.
FirstState(p) ==
    [creatures |-> 1, initiative_order |-> 1, current_turn |-> p.current_turn,
     round |-> 1, combat_log |-> 2, is_over |-> FALSE, winner |-> None,
     reaction_used |-> p.reaction_used]

\* The keyword updates handed to update_creature.
Updates ==
    [current_hp : Opt({0}), position : Opt({<<1, 1>>})] \
        {[current_hp |-> Nothing, position |-> Nothing]}

\* A call on the state st has returned a CombatState.
Derived(r) ==
    /\ objects' = r.objects
    /\ states' = Append(states, r.state)
    /\ UNCHANGED <<probe, out, engine_vars, agent_vars, sim_vars>>

\* The states a method may be called on.
Callable == {s \in 1 .. Len(states) : Len(states) < MaxStates}

CallUpdateCreature ==
    \E s \in Callable : \E creature_id \in 1 .. probe.n : \E updates \in Updates :
       Derived(update_creature(objects, states[s], creature_id, updates))

CallAddLog ==
    \E s \in Callable : \E message \in {"hit", "miss"} :
       Derived(add_log(objects, states[s], message))

CallSetReactionUsed ==
    \E s \in Callable : \E creature_id \in 1 .. probe.n :
       Derived(state_set_reaction_used(objects, states[s], creature_id))

CallNextTurn ==
    \E s \in Callable : Derived(state_next_turn(objects, states[s]))

CallEndCombat ==
    \E s \in Callable : \E won \in {None, "party"} :
       Derived(end_combat(objects, states[s], won))

\* ------------------------------------------------------ calculate_difficulty_rating
\* Proportions are Python floats.  A float is written here as an integer that
\* keeps the order of the floats: three times its decimal value in
\* thousandths, plus the direction in which the float lies off the float
\* nearest to that decimal value (-1 below, 0 equal, 1 above).
Float(thousandths, off) == 3 * thousandths + off

\* k / 100: the float nearest to k percent.
Percent(k) == Float(10 * k, 0)

\* Where `base + (party_size - 4) * 0.025` in IEEE 754 double arithmetic lies
\* off the float nearest to its decimal value, for base 0.80, 0.60 and 0.40 (in
\* thousandths) and party sizes 1 to 8.
size_adjusted_rounding(base, party_size) ==
    CASE base = 800 /\ party_size \in {1, 5, 6} -> 1
      [] base = 600 /\ party_size \in {1, 2} -> -1
      [] base = 400 /\ party_size \in {2, 5, 7} -> 1
      [] OTHER -> 0

\* base + size_adjustment.
win_threshold(base, party_size) ==
    Float(base + (party_size - 4) * 25, size_adjusted_rounding(base, party_size))

\* easy_win_threshold - duration_penalty: subtracting 0.0 gives the threshold
\* back, subtracting 0.05 gives the float nearest to the decimal difference
\* for party sizes 1 to 8.
easy_threshold_after_penalty(avg_duration, party_size) ==
    IF avg_duration >= 10
    THEN Float(800 + (party_size - 4) * 25 - 50, 0)
    ELSE win_threshold(800, party_size)

\* calculate_difficulty_rating(win_rate, ci_width, tpk_risk, avg_duration,
\* party_size), win_rate and tpk_risk given in percent.
calculate_difficulty_rating(win_rate, tpk_risk, avg_duration, party_size) ==
    LET win == Percent(win_rate)
        tpk == Percent(tpk_risk)
        medium_win_threshold == win_threshold(600, party_size)
        hard_win_threshold == win_threshold(400, party_size)
    IN  IF win < hard_win_threshold \/ tpk > Percent(30)
        THEN "Deadly"
        ELSE IF \/ hard_win_threshold <= win /\ win < medium_win_threshold
                \/ Percent(15) <= tpk /\ tpk <= Percent(30)
        THEN "Hard"
        ELSE IF \/ /\ medium_win_threshold <= win
                   /\ win < easy_threshold_after_penalty(avg_duration, party_size)
                \/ Percent(5) <= tpk /\ tpk < Percent(15)
        THEN "Medium"
        ELSE "Easy"

\* Win rates and TPK risks every 5 percent, average durations either side of
\* 10 rounds, parties of 1 to 8.
DifficultyProbes ==
    [fn : {"calculate_difficulty_rating"}, win_rate : {5 * k : k \in 0 .. 20},
     tpk_risk : {5 * k : k \in 0 .. 20}, avg_duration : {9, 10}, party_size : 1 .. 8]

CallCalculateDifficultyRating ==
    /\ probe.fn = "calculate_difficulty_rating"
    /\ out = Nothing
    /\ out' = Some(calculate_difficulty_rating(probe.win_rate, probe.tpk_risk,
                                                probe.avg_duration, probe.party_size))
    /\ UNCHANGED <<probe, objects, states, engine_vars, agent_vars, sim_vars>>

\* ------------------------------------------------------ the library specification
\* No combat is running.
AtRest ==
    /\ team = [c \in Ids |-> Templates[c].team]
    /\ hp = [c \in Ids |-> Templates[c].hp_max]
    /\ pos = [c \in Ids |-> Templates[c].position]
    /\ initiative_rolls = <<>>
    /\ initiative_order = <<>>
    /\ current_turn = 0
    /\ round = 1
    /\ reaction_used = {}
    /\ rounds = 0
    /\ pc = "idle"
    /\ i = 1
    /\ winner = None
    /\ asked = <<>>
    /\ oa_made = [c \in Ids |-> 0]
    /\ action = NoAction
    /\ how = None
    /\ oa_log = <<>>
    /\ atk_log = <<>>
    /\ save_log = <<>>
    /\ entries_tail = <<>>
    /\ is_over = FALSE
    /\ state_winner = None
    /\ NewAgent

RulesInit ==
    /\ AtRest
    /\ NoSimulation
    /\ probe \in AttackProbes \cup CoverProbes \cup DamageProbes \cup VictoryProbes
                 \cup DeathSaveProbes \cup StateProbes \cup DifficultyProbes
                 \cup DiceProbes \cup BreakdownProbes
    /\ out = Nothing
    /\ objects = IF probe.fn = "CombatState" THEN FirstObjects(probe) ELSE NoObjects
    /\ states = IF probe.fn = "CombatState" THEN <<FirstState(probe)>> ELSE <<>>

RulesNext ==
    \/ CallMakeAttackRoll
    \/ CallAttackRollInTerrain
    \/ CallApplyDamageModifiers
    \/ CallVictory
    \/ CallMakeDeathSave
    \/ CallUpdateCreature
    \/ CallAddLog
    \/ CallSetReactionUsed
    \/ CallNextTurn
    \/ CallEndCombat
    \/ CallCalculateDifficultyRating
    \/ CallRollDamageForAttack
    \/ CallExtractDamageBreakdown

RulesSpec == RulesInit /\ [][RulesNext]_vars

\* ------------------------------------------------------ run_batch
\* Bounds of the sampling configuration.
MaxRuns == 3
MaxInterval == 2

\* run_batch(creatures, agent, on_progress=...) on a MonteCarloSimulator whose
\* constructor accepted min_runs, max_runs and check_interval; the templates in
\* `wounded` were loaded with a current_hp below hp_max and a failed death
\* save.  The target precision lies anywhere in (0, 1).
BatchProbes ==
    {p \in [fn : {"run_batch"}, min_runs : 1 .. MaxRuns, max_runs : 1 .. MaxRuns,
            check_interval : 1 .. MaxInterval, on_progress : BOOLEAN,
            wounded : {{}, {1, 4}}] :
        p.min_runs <= p.max_runs}

\* The Creature objects of the templates: the template of c is object c.
TemplateObjects(wounded) ==
    [c \in Ids |->
        [current_hp |-> IF c \in wounded THEN Templates[c].hp_max - 1
                        ELSE Templates[c].hp_max,
         hp_max |-> Templates[c].hp_max,
         position |-> Templates[c].position,
         death_saves |-> [successes |-> 0,
                          failures |-> IF c \in wounded THEN 1 ELSE 0]]]

\* Variant of model_copy that hands back the object it was given.
model_copy_Shallow(objs, ref) == [objs |-> objs, ref |-> ref]

\* creature.model_copy(deep=True): a new object with the same field values.
model_copy(objs, ref) == [objs |-> Append(objs, objs[ref]), ref |-> Len(objs) + 1]

\* _create_fresh_creatures(creatures): for each template a copy whose
\* current_hp is then set to its hp_max; acc is the dict built so far.
RECURSIVE create_fresh_creatures(_, _, _)
create_fresh_creatures(objs, c, acc) ==
    IF c > N THEN [objs |-> objs, fresh |-> acc]
    ELSE LET copied == model_copy(objs, c)
             reset == [copied.objs EXCEPT ![copied.ref].current_hp =
                                             copied.objs[copied.ref].hp_max]
         IN  create_fresh_creatures(reset, c + 1, Append(acc, copied.ref))

\* Final states of run_combat, each creature's current_hp: the party has won,
\* the enemy has won, a Fireball has dropped everybody, and the max_rounds
\* cutoff with nobody hurt.
TrialFinals == {<<1, 1, 1, 0>>, <<0, 0, 0, 2>>, <<0, 0, 0, 0>>, <<1, 1, 1, 2>>}

\* get_winner of a final state of a trial.
trial_winner(final) == get_winner_of([c \in Ids |-> Templates[c].team], final)

\* Variant of the on_progress call whose exception leaves run_simulation.
progress_propagates_Raised(raised) == raised

\* `try: on_progress(...) except Exception: pass`: no exception of the callback
\* leaves run_simulation.
progress_propagates(raised) == FALSE

\* Variant of the trial loops that go on after a trial that raised.
after_failed_trial_Skips(then) == then

\* Where run_simulation is after run_combat raised: nothing in it catches the
\* exception, which leaves run_simulation.
after_failed_trial(then) == "raised"

\* One iteration of a trial loop of run_simulation: fresh creatures,
\* run_combat, which returns a final state or raises, then the counters and the
\* progress callback, which returns or raises.  `then` is where run_simulation
\* is when the loop goes on.
Trial(then) ==
    LET made == create_fresh_creatures(store, 1, <<>>)
    IN  /\ store' = made.objs
        /\ fresh' = made.fresh
        /\ \/ /\ mc' = after_failed_trial(then)
              /\ UNCHANGED <<wins, total_runs, final_states, runs_left,
                             progress_calls>>
           \/ \E final \in TrialFinals : \E raised \in BOOLEAN :
                 /\ final_states' = Append(final_states, final)
                 /\ wins' = IF trial_winner(final) = "party" THEN wins + 1 ELSE wins
                 /\ total_runs' = total_runs + 1
                 /\ runs_left' = runs_left - 1
                 /\ IF probe.on_progress
                    THEN /\ progress_calls' =
                               Append(progress_calls,
                                      [completed |-> total_runs', total |-> probe.max_runs,
                                       wins |-> wins', raised |-> raised])
                         /\ mc' = IF progress_propagates(raised) THEN "raised"
                                  ELSE IF runs_left' = 0 THEN "while" ELSE then
                    ELSE /\ ~raised
                         /\ UNCHANGED progress_calls
                         /\ mc' = IF runs_left' = 0 THEN "while" ELSE then
        /\ UNCHANGED <<criterion_log, rules_vars, engine_vars, agent_vars>>

\* Phase 1: `for run_idx in range(self.min_runs)`.
MinimumRun ==
    /\ mc = "phase1"
    /\ Trial("phase1")

\* Phase 2, `for _ in range(runs_to_do)`.
BatchRun ==
    /\ mc = "phase2"
    /\ Trial("phase2")

\* `while total_runs < self.max_runs` is false: run_simulation returns.
MaxRunsReached ==
    /\ mc = "while"
    /\ ~(total_runs < probe.max_runs)
    /\ mc' = "returned"
    /\ UNCHANGED <<store, fresh, wins, total_runs, final_states, runs_left,
                   progress_calls, criterion_log, rules_vars, engine_vars, agent_vars>>

\* Variant of the while loop without `if should_stop: break`.
Checkpoint_NeverBreaks(should_stop) ==
    /\ mc = "while"
    /\ total_runs < probe.max_runs
    /\ criterion_log' = Append(criterion_log,
                               [wins |-> wins, total |-> total_runs,
                                should_stop |-> should_stop])
    /\ runs_left' = Min(probe.check_interval, probe.max_runs - total_runs)
    /\ mc' = "phase2"
    /\ UNCHANGED <<store, fresh, wins, total_runs, final_states, progress_calls,
                   rules_vars, engine_vars, agent_vars>>

\* Variant of the while loop whose batches are always check_interval long.
Checkpoint_Uncapped(should_stop) ==
    /\ mc = "while"
    /\ total_runs < probe.max_runs
    /\ criterion_log' = Append(criterion_log,
                               [wins |-> wins, total |-> total_runs,
                                should_stop |-> should_stop])
    /\ IF should_stop
       THEN mc' = "returned" /\ UNCHANGED runs_left
       ELSE /\ runs_left' = probe.check_interval
            /\ mc' = "phase2"
    /\ UNCHANGED <<store, fresh, wins, total_runs, final_states, progress_calls,
                   rules_vars, engine_vars, agent_vars>>

\* progressive_sampling_stopping_criteria(wins, total_runs, ...) is evaluated
\* at the head of the while loop: the interval is narrow enough or it is not,
\* depending on the target precision.  On should_stop the loop breaks,
\* otherwise min(check_interval, max_runs - total_runs) trials follow.
Checkpoint(should_stop) ==
    /\ mc = "while"
    /\ total_runs < probe.max_runs
    /\ criterion_log' = Append(criterion_log,
                               [wins |-> wins, total |-> total_runs,
                                should_stop |-> should_stop])
    /\ IF should_stop
       THEN mc' = "returned" /\ UNCHANGED runs_left
       ELSE /\ runs_left' = Min(probe.check_interval, probe.max_runs - total_runs)
            /\ mc' = "phase2"
    /\ UNCHANGED <<store, fresh, wins, total_runs, final_states, progress_calls,
                   rules_vars, engine_vars, agent_vars>>

\* _count_tpks(final_states, creatures).
count_tpks(finals) ==
    Cardinality({k \in 1 .. Len(finals) :
                    /\ trial_winner(finals[k]) = "enemy"
                    /\ \A c \in Ids :
                          Templates[c].team = "party" => finals[k][c] <= 0})

\* _extract_rounds_from_logger(logger) for the logger of a trial that ended in
\* the final state `final`: the rounds of its combat-over line.  A side is
\* down within the first round, the cutoff comes after max_rounds rounds.
trial_rounds(final) == IF trial_winner(final) = None /\ \E c \in Ids : final[c] > 0
                       THEN MaxRounds ELSE 1

\* sum(rounds) / len(rounds) if rounds else 0.0, as the fraction sum / count.
RECURSIVE sum_rounds(_, _)
sum_rounds(finals, ks) ==
    IF ks = {} THEN 0
    ELSE LET k == CHOOSE n \in ks : TRUE
         IN  trial_rounds(finals[k]) + sum_rounds(finals, ks \ {k})

average_rounds(finals, ks) ==
    IF ks = {} THEN [sum |-> 0, count |-> 1]
    ELSE [sum |-> sum_rounds(finals, ks), count |-> Cardinality(ks)]

\* _analyze_combat_duration(final_states, loggers): the trials the party won
\* go to win_rounds, all others to loss_rounds.
analyze_combat_duration(finals) ==
    LET won == {k \in 1 .. Len(finals) : trial_winner(finals[k]) = "party"}
    IN  [wins |-> average_rounds(finals, won),
         losses |-> average_rounds(finals, (1 .. Len(finals)) \ won)]

\* run_simulation has returned its SimulationResults: run_batch returns
\* BatchResults.
BatchReturns ==
    /\ mc = "returned"
    /\ mc' = "done"
    /\ out' = Some([raised |-> None, wins |-> wins, total_runs |-> total_runs,
                    tpk_count |-> count_tpks(final_states),
                    avg_combat_duration_wins |->
                        analyze_combat_duration(final_states).wins,
                    avg_combat_duration_losses |->
                        analyze_combat_duration(final_states).losses,
                    final_states |-> final_states])
    /\ UNCHANGED <<probe, objects, states, engine_vars, agent_vars, store, fresh, wins,
                   total_runs, final_states, runs_left, progress_calls,
                   criterion_log>>

\* run_simulation has raised: `raise ValueError(...) from e`.
BatchRaises ==
    /\ mc = "raised"
    /\ mc' = "done"
    /\ out' = Some([raised |-> "ValueError"])
    /\ UNCHANGED <<probe, objects, states, engine_vars, agent_vars, store, fresh, wins,
                   total_runs, final_states, runs_left, progress_calls,
                   criterion_log>>

\* run_batch is called: run_simulation starts with its counters at zero.
BatchInit ==
    /\ AtRest
    /\ probe \in BatchProbes
    /\ out = Nothing
    /\ objects = NoObjects
    /\ states = <<>>
    /\ store = TemplateObjects(probe.wounded)
    /\ fresh = <<>>
    /\ wins = 0
    /\ total_runs = 0
    /\ final_states = <<>>
    /\ runs_left = probe.min_runs
    /\ mc = "phase1"
    /\ progress_calls = <<>>
    /\ criterion_log = <<>>

BatchNext ==
    \/ MinimumRun
    \/ BatchRun
    \/ MaxRunsReached
    \/ Checkpoint(TRUE)
    \/ Checkpoint(FALSE)
    \/ BatchReturns
    \/ BatchRaises

BatchSpec == BatchInit /\ [][BatchNext]_vars

\* ====================================================== LLMAgent
\* The circuit breaker of agents/llm_agent.py: probe holds the agent's
\* circuit_breaker_threshold, a step is one call of choose_action or of
\* reset_circuit_breaker, out holds where the returned action came from.

\* Bounds of the threshold and of the number of calls.
MaxThreshold == 3
MaxDecisions == 5

AgentProbes == [fn : {"choose_action"}, circuit_breaker_threshold : 1 .. MaxThreshold]

\* Variant of the failure count that a success leaves as it is.
failures_after_NeverCleared(count, failed) == IF failed THEN count + 1 ELSE count

\* `self._consecutive_failures = 0  # Reset on success` and
\* `self._consecutive_failures += 1` in the except branch.
failures_after(count, failed) == IF failed THEN count + 1 ELSE 0

\* A call is logged with the circuit as it found it, whether the creature was
\* above 0 HP, whether the provider was called, whether the try block raised
\* and where the returned action came from.
Decision(was_open, alive, provider_called, failed, returned) ==
    [event |-> "choose_action", was_open |-> was_open, alive |-> alive,
     provider_called |-> provider_called, failed |-> failed, returned |-> returned]

\* choose_action(state, creature_id).  In the try block the prompt is built,
\* _call_provider calls the provider (up to three times on connection
\* errors), the response is parsed, validated and converted; any exception
\* there is a failed decision.
ChooseAction ==
    /\ probe.fn = "choose_action"
    /\ Len(decisions) < MaxDecisions
    /\ \E alive \in BOOLEAN : \E failed \in BOOLEAN :
          IF circuit_open \/ ~alive
          THEN /\ decisions' = Append(decisions,
                                      Decision(circuit_open, alive, FALSE, FALSE,
                                               "heuristic"))
               /\ out' = Some("heuristic")
               /\ UNCHANGED <<consecutive_failures, circuit_open>>
          ELSE /\ consecutive_failures' = failures_after(consecutive_failures, failed)
               /\ circuit_open' =
                     (failed /\ consecutive_failures' >= probe.circuit_breaker_threshold)
               /\ decisions' = Append(decisions,
                                      Decision(FALSE, TRUE, TRUE, failed,
                                               IF failed THEN "heuristic" ELSE "llm"))
               /\ out' = Some(IF failed THEN "heuristic" ELSE "llm")
    /\ UNCHANGED <<probe, objects, states, engine_vars, sim_vars>>

\* reset_circuit_breaker(), which run_combat calls before a combat.
ResetCircuitBreaker ==
    /\ probe.fn = "choose_action"
    /\ Len(decisions) < MaxDecisions
    /\ consecutive_failures' = 0
    /\ circuit_open' = FALSE
    /\ decisions' = Append(decisions, [event |-> "reset_circuit_breaker"])
    /\ UNCHANGED <<probe, out, objects, states, engine_vars, sim_vars>>

AgentInit ==
    /\ AtRest
    /\ NoSimulation
    /\ probe \in AgentProbes
    /\ out = Nothing
    /\ objects = NoObjects
    /\ states = <<>>

AgentNext == ChooseAction \/ ResetCircuitBreaker

AgentSpec == AgentInit /\ [][AgentNext]_vars

\* ====================================================== properties
\* Place of creature c in the initiative order.
OrderIndex(c) == CHOOSE n \in 1 .. Len(initiative_order) : initiative_order[n] = c

\* Some team has no member above 0 HP.
SomeTeamDown == \E t \in Teams : \A c \in Ids : team[c] = t => hp[c] <= 0

\* The teams with a member above 0 HP.
TeamsAlive == {t \in Teams : \E c \in Ids : team[c] = t /\ hp[c] > 0}

\* ------------------------------------------------------ C1
\* C1: in every state reached by run_combat, whatever the attacks, opportunity
\* attacks and AoE resolutions and whatever the damage expressions, every
\* creature satisfies 0 <= current_hp <= hp_max.
C1_HpWithinBounds == \A c \in Ids : 0 <= hp[c] /\ hp[c] <= Templates[c].hp_max

\* ------------------------------------------------------ C2
\* C2: once a state is reached in which some team has no member above 0 HP,
\* choose_action is not called again and no further turn is played: the only
\* step left ends run_combat, and it changes no creature.
C2_HaltsOnceTeamDown ==
    [][SomeTeamDown => /\ asked' = asked
                       /\ pc' = "done"
                       /\ hp' = hp
                       /\ pos' = pos]_vars

\* The combat ended before the round's last creature, with a living creature
\* still to come in the initiative order and rounds left.
C2_Witness ==
    /\ pc = "done"
    /\ SomeTeamDown
    /\ rounds < MaxRounds
    /\ \E n \in (i + 1) .. N : hp[initiative_order[n]] > 0

\* ------------------------------------------------------ C3
\* How far run_combat has got inside the current round.
Stage ==
    CASE pc = "start" -> 0
      [] pc = "turn" -> 2 * i - 1
      [] pc = "end_turn" -> 2 * i
      [] pc = "round" -> 2 * N + 1
      [] pc = "done" -> 2 * N + 2

\* How far run_combat has got: rounds started, then the stage in the round.
Progress == rounds * (2 * N + 3) + Stage

\* C3: run_combat always terminates after at most max_rounds rounds whatever
\* the agent returns: every step advances a bounded measure and never starts a
\* round beyond max_rounds; no step gets stuck before the end (no error); and
\* when it ends with two or more teams alive (the max_rounds cutoff) the winner
\* is None.
C3_TerminatesWithinMaxRounds ==
    /\ [](pc = "done" \/ ENABLED Next)
    /\ [][/\ Progress' > Progress
          /\ Progress' <= MaxRounds * (2 * N + 3) + 2 * N + 2
          /\ rounds' <= MaxRounds
          /\ (pc' = "done" /\ Cardinality(TeamsAlive') >= 2 => winner' = None)]_vars

\* run_combat ended by the cutoff with both teams alive and no winner.
C3_Witness ==
    /\ pc = "done"
    /\ rounds = MaxRounds
    /\ Cardinality(TeamsAlive) >= 2
    /\ winner = None

\* ------------------------------------------------------ C4
\* C4: the reaction_used set is empty when each round begins, before the first
\* creature of the initiative order acts, and it is never cleared between two
\* turns of the same round.
C4_ReactionsClearedOncePerRound ==
    [][/\ (pc = "round" /\ pc' = "turn" => reaction_used' = {})
       /\ (pc \in {"turn", "end_turn"} /\ pc' \in {"turn", "end_turn"}
             => reaction_used \subseteq reaction_used')]_vars

\* ------------------------------------------------------ C5
\* C5: within one round (one pass over the initiative order) no creature makes
\* more than one opportunity attack.
C5_OneOpportunityAttackPerRound == \A c \in Ids : oa_made[c] <= 1

\* ------------------------------------------------------ C6
\* The melee attacks of creature c, in action order then attack order.
MeleeAttacksOf(c) ==
    SelectSeq(FlattenAttacks(Templates[c].actions),
              LAMBDA a : a.reach # Nothing \/ a.range = Nothing)

\* Melee reach as the claim words it: the first melee attack's reach, 5 ft if
\* none is declared.
MeleeReachOf(c) ==
    IF MeleeAttacksOf(c) # <<>> /\ MeleeAttacksOf(c)[1].reach # Nothing
    THEN Val(MeleeAttacksOf(c)[1].reach)
    ELSE 5

\* The action carries a move the engine resolves.
Moves(a) ==
    /\ a.move_to # Nothing
    /\ \/ a.action_type = "move"
       \/ a.action_type \in {"attack", "move_and_attack"} /\ a.target_id # Nothing

\* The creatures that rolled an opportunity attack.
Rollers(log) == {log[n].enemy : n \in 1 .. Len(log)}

\* Some team is down once the mover is at mh hit points.
TeamDownWith(mover, mh) ==
    \E t \in Teams : \A c \in Ids :
       team[c] = t => (IF c = mover THEN mh ELSE hp[c]) <= 0

\* When e's place in the initiative order comes, the mover is still above 0 HP
\* and the combat is not over: no earlier roll dropped the mover.
StillUpFor(mover, log, e) ==
    \A n \in 1 .. Len(log) :
       OrderIndex(log[n].enemy) < OrderIndex(e)
          => log[n].hp > 0 /\ ~TeamDownWith(mover, log[n].hp)

\* E's conditions for an opportunity attack on the mover going from from to to.
OAConditions(e, mover, from, to) ==
    /\ e # mover
    /\ team[e] # team[mover]
    /\ hp[e] > 0
    /\ e \notin reaction_used
    /\ MeleeAttacksOf(e) # <<>>
    /\ distance_in_feet(from, pos[e]) <= MeleeReachOf(e)
    /\ distance_in_feet(to, pos[e]) > MeleeReachOf(e)

C7_DroppedMoverStays ==
    [][(/\ pc = "turn"
        /\ pc' = "end_turn"
        /\ action'.action_type \in {"move", "move_and_attack"}
        /\ oa_log' # <<>>
        /\ oa_log'[Len(oa_log')].hp <= 0)
       => /\ pos'[initiative_order[i]] = pos[initiative_order[i]]
          /\ atk_log' = <<>>]_vars

\* A move_and_attack whose mover was dropped on the way while its team fights
\* on: it stands where it stood, short of its destination.
C7_Witness ==
    /\ pc = "end_turn"
    /\ action.action_type = "move_and_attack"
    /\ action.target_id # Nothing
    /\ oa_log # <<>>
    /\ oa_log[Len(oa_log)].hp <= 0
    /\ ~SomeTeamDown
    /\ pos[cid] # Val(action.move_to)
    /\ atk_log = <<>>

\* ------------------------------------------------------ C8
\* C8: in each round choose_action is called at most once per creature, in
\* initiative order, and only for a creature above 0 HP at the moment of the
\* call: each call is for a creature that comes later in the order than every
\* creature already asked this round.
C8_AskedOnceInOrderWhenAlive ==
    [][asked' # asked /\ asked' # <<>> =>
         \E c \in Ids :
            /\ asked' = Append(asked, c)
            /\ hp[c] > 0
            /\ \A n \in 1 .. Len(asked) : OrderIndex(asked[n]) < OrderIndex(c)]_vars

\* A creature at 0 HP was passed over and a creature after it was asked.
C8_Witness ==
    /\ pc = "end_turn"
    /\ \E c \in Ids :
          /\ hp[c] <= 0
          /\ \A n \in 1 .. Len(asked) : asked[n] # c
          /\ OrderIndex(c) < i
          /\ asked[Len(asked)] = cid

\* ------------------------------------------------------ C9
\* order lists every creature id once, by total descending, ties by id ascending.
SortedByInitiative(order, rolls) ==
    /\ Len(order) = N
    /\ {order[n] : n \in 1 .. N} = Ids
    /\ \A a, b \in 1 .. N :
          a < b => \/ rolls[order[a]] > rolls[order[b]]
                   \/ rolls[order[a]] = rolls[order[b]] /\ order[a] < order[b]

\* C9: the initiative order built at combat start is a permutation of the
\* creature ids sorted by initiative total descending, ties in ascending
\* creature_id order; in every later state initiative_order is that same list
\* and the key set of state.creatures is unchanged.
C9_InitiativeOrderFixed ==
    [][/\ pc = "start" => SortedByInitiative(initiative_order', initiative_rolls)
       /\ pc # "start" => initiative_order' = initiative_order
       /\ DOMAIN hp' = Ids
       /\ DOMAIN pos' = Ids]_vars

\* The order was built from rolls with a tie and with a strict difference.
C9_Witness ==
    /\ pc = "round"
    /\ rounds = 0
    /\ \E a, b \in Ids : a # b /\ initiative_rolls[a] = initiative_rolls[b]
    /\ \E a, b \in Ids : initiative_rolls[a] > initiative_rolls[b]
    /\ SortedByInitiative(initiative_order, initiative_rolls)

\* ------------------------------------------------------ C10
\* The Attack entries of the Action the attacker named (none if it has no such
\* Action).
NamedAttacks(c, name) ==
    LET named == {n \in 1 .. Len(Templates[c].actions) :
                    Templates[c].actions[n].name = name}
    IN  IF named = {} THEN <<>>
        ELSE Templates[c].actions[CHOOSE n \in named : \A q \in named : n <= q].attacks

\* C10: when an attack action with k Attack entries is resolved against a
\* target, the rolls are made in list order, one per entry, none against a
\* target at 0 HP; exactly k rolls are made unless the target reaches 0 HP
\* earlier, and then the remaining entries are skipped.
C10_SubAttacksInOrder ==
    (/\ pc = "end_turn"
     /\ how = "next_turn"
     /\ action.action_type \in {"attack", "move_and_attack"}
     /\ action.target_id # Nothing)
    => LET k == Len(NamedAttacks(cid, action.attack_name))
           m == Len(atk_log)
       IN  /\ \A n \in 1 .. m : atk_log[n].index = n /\ atk_log[n].hp_before > 0
           /\ m <= k
           /\ m < k => hp[Val(action.target_id)] <= 0

\* A two-entry Multiattack whose first roll dropped the target: the second
\* entry was skipped.
C10_Witness ==
    /\ pc = "end_turn"
    /\ how = "next_turn"
    /\ action.action_type = "attack"
    /\ action.target_id # Nothing
    /\ Len(NamedAttacks(cid, action.attack_name)) = 2
    /\ Len(atk_log) = 1
    /\ atk_log[1].hp_before > 0
    /\ hp[Val(action.target_id)] = 0

\* The step that resolves an AoE action of the creature whose turn it is.
ResolvesAoE ==
    /\ pc = "turn"
    /\ pc' = "end_turn"
    /\ hp[cid] > 0
    /\ TakesAoEBranch(action')

\* Centre and radius of the AoE action a of the creature whose turn it is.
AoECenter(a) == IF a.target_position # Nothing THEN Val(a.target_position) ELSE pos[cid]

AoERadius(a) == Val(Val(find_action(Templates[cid], a.attack_name)).radius_squares)

\* The entries of a save log that belong to creature c.
SavesOf(log, c) == {n \in 1 .. Len(log) : log[n].target = c}

\* C11: resolving an AoE makes every creature within radius_squares (Manhattan)
\* of the centre roll exactly one saving throw, allies and the caster included,
\* and leaves the HP of every creature farther away unchanged.
C11_EveryCreatureInRadiusSaves ==
    [][ResolvesAoE =>
         \A c \in Ids :
            IF manhattan_distance(AoECenter(action'), pos[c]) <= AoERadius(action')
            THEN Cardinality(SavesOf(save_log', c)) = 1
            ELSE /\ SavesOf(save_log', c) = {}
                 /\ hp'[c] = hp[c]]_vars

Returned(fn) == probe.fn = fn /\ out # Nothing

\* C13: for every natural roll 1..20, bonus and AC, make_attack_roll reports a
\* natural 20 as a critical hit whatever the AC, a natural 1 as a miss whatever
\* the bonus, and any other roll as a hit iff roll + bonus >= AC, never critical.
C13_AttackRollTable ==
    Returned("make_attack_roll") =>
        LET r == probe.natural_roll
            res == Val(out)
        IN  /\ r = 20 => res.is_hit /\ res.is_critical
            /\ r = 1 => ~res.is_hit
            /\ r \notin {1, 20} =>
                  /\ res.is_hit <=> r + probe.attack_bonus >= probe.target_ac
                  /\ ~res.is_critical

\* A natural 1 whose total reaches the AC, reported as a miss.
C13_Witness ==
    /\ Returned("make_attack_roll")
    /\ probe.natural_roll = 1
    /\ 1 + probe.attack_bonus >= probe.target_ac
    /\ ~Val(out).is_hit

\* floor(x / 2).
HalfRoundedDown(x) == CHOOSE q \in (-MaxDamage - 1) .. (MaxDamage + 1) : 2 * q <= x /\ x < 2 * q + 2

\* C15: apply_damage_modifiers applies at most one modifier, in the order
\* immunity, resistance, vulnerability: immune gives 0 whatever else holds;
\* otherwise resistant gives floor(damage / 2) even if also vulnerable;
\* otherwise vulnerable gives 2 * damage; otherwise the damage is unchanged.
C15_OneModifierInOrder ==
    Returned("apply_damage_modifiers") =>
        LET d == probe.damage
            t == probe.damage_type
            cr == probe.creature
            immune == t \in cr.damage_immunities
            resistant == t \in cr.damage_resistances
            vulnerable == t \in cr.damage_vulnerabilities
        IN  /\ immune => Val(out) = 0
            /\ ~immune /\ resistant => Val(out) = HalfRoundedDown(d)
            /\ ~immune /\ ~resistant /\ vulnerable => Val(out) = 2 * d
            /\ ~immune /\ ~resistant /\ ~vulnerable => Val(out) = d

\* An odd damage against a creature both resistant and vulnerable to it: halved,
\* rounded down.
C15_Witness ==
    /\ Returned("apply_damage_modifiers")
    /\ probe.damage = 3
    /\ probe.damage_type \in probe.creature.damage_resistances
    /\ probe.damage_type \in probe.creature.damage_vulnerabilities
    /\ probe.damage_type \notin probe.creature.damage_immunities
    /\ Val(out) = 1

\* The team tags with a member above 0 HP in the state probed.
ProbedAlive == {probe.teams[c] : c \in {d \in DOMAIN probe.teams : probe.hps[d] > 0}}

\* C18: for every assignment of teams and HP values, is_combat_over is true iff
\* some team present has all its members at HP <= 0, and get_winner returns
\* team T iff T is the only team with a member above 0 HP, None when no team or
\* more than one team has a living member.
C18_VictoryFunctions ==
    Returned("victory") =>
        LET tm == probe.teams
            h == probe.hps
            res == Val(out)
        IN  /\ res.is_combat_over <=>
                  \E c \in DOMAIN tm : \A d \in DOMAIN tm : tm[d] = tm[c] => h[d] <= 0
            /\ \A T \in TeamTags : res.get_winner = T <=> ProbedAlive = {T}
            /\ res.get_winner = None <=> Cardinality(ProbedAlive) # 1

\* Three teams, one of them down and two with a living member: combat is over
\* and nobody has won.
C18_Witness ==
    /\ Returned("victory")
    /\ Cardinality({probe.teams[c] : c \in DOMAIN probe.teams}) = 3
    /\ Cardinality(ProbedAlive) = 2
    /\ Val(out).is_combat_over
    /\ Val(out).get_winner = None

\* The cover bonus of a cover type.
BonusOfCover(cover) ==
    CASE cover = "half" -> 2
      [] cover = "three-quarters" -> 5
      [] OTHER -> 0

C16_DeathSaveTable ==
    Returned("make_death_save") =>
        LET before == probe.creature
            roll == Val(out).roll
            after == Val(out).creature
            counters == <<after.successes, after.failures>>
        IN  /\ roll = 20 => after.current_hp = 1 /\ counters = <<0, 0>>
            /\ roll = 1 => counters = <<before.successes, before.failures + 2>>
            /\ roll \in 10 .. 19 =>
                  counters = IF before.successes = 2 THEN <<0, 0>>
                             ELSE <<before.successes + 1, before.failures>>
            /\ roll \in 2 .. 9 => counters = <<before.successes, before.failures + 1>>
            /\ roll # 20 => after.current_hp = before.current_hp

\* A third success after two failures: both counters are back at 0.
C16_Witness ==
    /\ Returned("make_death_save")
    /\ probe.creature.successes = 2
    /\ probe.creature.failures = 2
    /\ Val(out).roll \in 10 .. 19
    /\ Val(out).creature.successes = 0
    /\ Val(out).creature.failures = 0

\* C17: after any sequence of death saves the stable flag is true only if the
\* most recent save was a natural 20 or the third cumulative success; a failed
\* save (roll 1..9) always leaves stable = false.
C17_StableOnlyAfterRecovery ==
    Returned("make_death_save") =>
        LET before == probe.creature
            roll == Val(out).roll
            after == Val(out).creature
        IN  /\ after.stable => roll = 20 \/ (roll \in 10 .. 19 /\ before.successes = 2)
            /\ roll \in 1 .. 9 => ~after.stable

\* C19: whenever run_combat stops because is_combat_over became true, and not
\* by the max_rounds cutoff, at most one team has a member above 0 HP in the
\* final state, whatever the number of team tags among the creatures.
C19_AtMostOneTeamLeft ==
    pc = "done" /\ SomeTeamDown => Cardinality(TeamsAlive) <= 1

\* Every field of the CombatState st as a caller reads it through the heap h.
Fields(h, st) ==
    [creatures |-> [c \in DOMAIN h.dicts[st.creatures] |->
                       h.creatures[h.dicts[st.creatures][c]]],
     initiative_order |-> h.lists[st.initiative_order],
     current_turn |-> st.current_turn,
     round |-> st.round,
     combat_log |-> h.lists[st.combat_log],
     reaction_used |-> st.reaction_used,
     is_over |-> st.is_over,
     winner |-> st.winner]

\* C20: update_creature, add_log, set_reaction_used, next_turn and end_combat
\* called on a state S, or on a state derived from S, leave every field of
\* every state that exists (each creature's HP and position, initiative_order,
\* current_turn, round, combat_log, reaction_used, is_over, winner) at the
\* value it had before the call.
C20_OldStatesUnchanged ==
    [][\A s \in 1 .. Len(states) :
          /\ s <= Len(states')
          /\ Fields(objects', states'[s]) = Fields(objects, states[s])]_vars

\* S reads as it was made although a state derived from it has a longer log
\* and another has a creature at another HP.
C20_Witness ==
    /\ Len(states) = MaxStates
    /\ Fields(objects, states[1]) = Fields(FirstObjects(probe), FirstState(probe))
    /\ \E s \in 2 .. Len(states) : Fields(objects, states[s]).combat_log # <<>>
    /\ \E s \in 2 .. Len(states) :
          Fields(objects, states[s]).creatures[1].current_hp = 0

\* ------------------------------------------------------ C21
\* The step is the call of next_turn on the state s.
NextTurnCalledOn(s) ==
    /\ s \in Callable
    /\ objects' = state_next_turn(objects, states[s]).objects
    /\ states' = Append(states, state_next_turn(objects, states[s]).state)

\* C21: next_turn on a state with n entries in initiative_order returns a
\* state whose current_turn is (current_turn + 1) mod n; round is one more
\* exactly when the pointer wraps to 0 and is the same otherwise;
\* reaction_used is empty exactly when the pointer wraps and is the same
\* otherwise; creatures, initiative_order, combat_log, is_over and winner are
\* those of the state it was called on.
C21_NextTurnAdvancesPointer ==
    [][\A s \in 1 .. Len(states) :
          NextTurnCalledOn(s) =>
             LET old == Fields(objects, states[s])
                 new == Fields(objects', states'[Len(states')])
                 n == Len(old.initiative_order)
                 wraps == (old.current_turn + 1) % n = 0
             IN  /\ new.current_turn = (old.current_turn + 1) % n
                 /\ new.round = IF wraps THEN old.round + 1 ELSE old.round
                 /\ new.reaction_used = IF wraps THEN {} ELSE old.reaction_used
                 /\ new.creatures = old.creatures
                 /\ new.initiative_order = old.initiative_order
                 /\ new.combat_log = old.combat_log
                 /\ new.is_over = old.is_over
                 /\ new.winner = old.winner]_vars

\* The last turn of a round in which a creature had reacted, then the first
\* turn of the next round: the pointer wrapped and moved on, the round is the
\* second and nobody has reacted in it.
C21_Witness ==
    /\ Len(states) = 3
    /\ Len(Fields(objects, states[1]).initiative_order) = 2
    /\ states[1].current_turn = 1
    /\ states[1].reaction_used # {}
    /\ states[2].current_turn = 0 /\ states[2].round = 2
    /\ states[2].reaction_used = {}
    /\ states[3].current_turn = 1 /\ states[3].round = 2

\* ------------------------------------------------------ C22
\* The trials among the final states `finals` that the party won.
PartyWins(finals) ==
    Cardinality({k \in 1 .. Len(finals) : trial_winner(finals[k]) = "party"})

\* C22: for every valid configuration and every sequence of trial outcomes,
\* run_simulation returns with min_runs <= total_runs <= max_runs and
\* 0 <= wins <= total_runs, wins is the number of trials whose winner is
\* "party", and exactly total_runs final states are recorded.
C22_ReturnedCounts ==
    mc = "returned" =>
       /\ probe.min_runs <= total_runs /\ total_runs <= probe.max_runs
       /\ 0 <= wins /\ wins <= total_runs
       /\ wins = PartyWins(final_states)
       /\ Len(final_states) = total_runs

\* run_simulation returns at max_runs after a last batch shorter than
\* check_interval, with trials won and trials lost.
C22_Witness ==
    /\ mc = "returned"
    /\ probe.check_interval = 2
    /\ probe.max_runs = probe.min_runs + 1
    /\ total_runs = probe.max_runs
    /\ 0 < wins /\ wins < total_runs

\* ------------------------------------------------------ C23
\* The criterion held at the latest of its evaluations.
CriterionHeld ==
    criterion_log # <<>> /\ criterion_log[Len(criterion_log)].should_stop

\* C23: run_simulation evaluates the stopping criterion only at
\* total_runs = min_runs + k * check_interval (k >= 0) below max_runs, at each
\* of these in turn; once the criterion is true at such a checkpoint no
\* further trial is run and nothing is evaluated again; otherwise sampling
\* stops only at max_runs; the returned total_runs is the first checkpoint at
\* which the criterion held, or max_runs; if the criterion holds after
\* min_runs trials, exactly min_runs trials are run.
C23_StopsAtFirstCheckpoint ==
    /\ \A k \in 1 .. Len(criterion_log) :
          /\ criterion_log[k].total = probe.min_runs + (k - 1) * probe.check_interval
          /\ criterion_log[k].total < probe.max_runs
          /\ criterion_log[k].total <= total_runs
          /\ criterion_log[k].should_stop => k = Len(criterion_log)
    /\ CriterionHeld =>
          /\ total_runs = criterion_log[Len(criterion_log)].total
          /\ mc \in {"returned", "done"}
    /\ mc = "returned" /\ ~CriterionHeld => total_runs = probe.max_runs
    /\ (criterion_log # <<>> /\ criterion_log[1].should_stop) =>
          total_runs = probe.min_runs

\* The criterion failed after min_runs trials and held one check_interval
\* later, short of max_runs: run_simulation returned there.
C23_Witness ==
    /\ mc = "returned"
    /\ Len(criterion_log) = 2
    /\ ~criterion_log[1].should_stop
    /\ criterion_log[2].should_stop
    /\ total_runs = probe.min_runs + probe.check_interval
    /\ total_runs < probe.max_runs

\* ------------------------------------------------------ C24
\* C24: the progress callback is called exactly once after each trial, with
\* the completed counts 1, 2, ..., total_runs in order and the running wins
\* count; a call that raises changes nothing: the trial is counted, its final
\* state is kept and the loop goes on as after a call that returns, so wins,
\* total_runs and the final states are what they are without the exception.
C24_ProgressCallbackHarmless ==
    /\ [](probe.on_progress =>
            /\ Len(progress_calls) = total_runs
            /\ \A k \in 1 .. Len(progress_calls) :
                  /\ progress_calls[k].completed = k
                  /\ progress_calls[k].total = probe.max_runs
                  /\ progress_calls[k].wins = PartyWins(SubSeq(final_states, 1, k)))
    /\ [][Len(progress_calls') > Len(progress_calls) =>
            /\ total_runs' = total_runs + 1
            /\ Len(final_states') = total_runs'
            /\ wins' = PartyWins(final_states')
            /\ mc' = IF runs_left' = 0 THEN "while" ELSE mc]_vars

\* The callback raised after the first trial and after the third, and
\* run_simulation returned all three trials, one of them won.
C24_Witness ==
    /\ mc = "returned"
    /\ total_runs = 3
    /\ Len(progress_calls) = 3
    /\ progress_calls[1].raised
    /\ ~progress_calls[2].raised
    /\ progress_calls[3].raised
    /\ wins = 1

\* ------------------------------------------------------ C25
\* C25: every Monte Carlo trial starts with each creature at
\* current_hp = hp_max and at its template's position, whatever the earlier
\* trials did; the template creatures handed to run_simulation have the HP,
\* the position and the death saves they had before the call.
C25_FreshCreaturesEachTrial ==
    mc # "idle" =>
       /\ \A c \in Ids : store[c] = TemplateObjects(probe.wounded)[c]
       /\ fresh # <<>> =>
             \A c \in Ids :
                /\ store[fresh[c]].current_hp = Templates[c].hp_max
                /\ store[fresh[c]].position = Templates[c].position

\* The second trial of a simulation whose ogre template was loaded wounded:
\* the first trial ended with the ogre at 0 HP, the second started with it at
\* full HP, and the template is still wounded with its failed death save.
C25_Witness ==
    /\ total_runs = 2
    /\ 4 \in probe.wounded
    /\ final_states[1][4] = 0
    /\ store[fresh[4]].current_hp = 2
    /\ store[4].current_hp = 1
    /\ store[4].death_saves.failures = 1

\* ------------------------------------------------------ C26
\* C26: if a combat trial raises, run_batch raises an error wrapping the
\* original and returns no BatchResults: the failed trial is not counted and
\* leaves no final state, and no trial is run after it.
C26_FailedTrialFailsBatch ==
    [][/\ (store' # store /\ total_runs' = total_runs) =>
             /\ mc' = "raised"
             /\ final_states' = final_states /\ wins' = wins
       /\ mc = "raised" =>
             /\ mc' = "done"
             /\ Val(out').raised = "ValueError"
             /\ UNCHANGED <<store, total_runs, final_states, wins>>]_vars

\* The second of at least two trials raised: run_batch raised with one trial
\* counted and trials still to run.
C26_Witness ==
    /\ mc = "done"
    /\ Val(out).raised = "ValueError"
    /\ total_runs = 1
    /\ Len(final_states) = 1
    /\ Len(store) = 3 * N
    /\ probe.min_runs >= 2

\* ------------------------------------------------------ C29
\* The trials among the final states `finals` that ended with every creature
\* of team party at 0 HP.
PartyDown(finals) ==
    Cardinality({k \in 1 .. Len(finals) :
                    \A c \in Ids : Templates[c].team = "party" => finals[k][c] <= 0})

\* C29: the tpk_count reported by run_batch is the number of trials whose
\* final state has every party creature at 0 HP, the trials in which the
\* enemy team was eliminated in the same combat included.
C29_TpkCountsEveryPartyWipe ==
    (mc = "done" /\ Val(out).raised = None) =>
       Val(out).tpk_count = PartyDown(Val(out).final_states)

\* ------------------------------------------------------ C27
\* How severe a rating is.
Severity(rating) ==
    CASE rating = "Easy" -> 0
      [] rating = "Medium" -> 1
      [] rating = "Hard" -> 2
      [] rating = "Deadly" -> 3

\* The Easy threshold of the win rate in thousandths: 80 percent, shifted by
\* 2.5 points per party member above or below 4.
EasyThreshold(party_size) == 800 + 25 * (party_size - 4)

\* The band of a win rate, in percent, as the claim gives it.
WinRateBand(win_rate, party_size) ==
    IF 10 * win_rate < EasyThreshold(party_size) - 400 THEN "Deadly"
    ELSE IF 10 * win_rate < EasyThreshold(party_size) - 200 THEN "Hard"
    ELSE IF 10 * win_rate < EasyThreshold(party_size) THEN "Medium"
    ELSE "Easy"

\* The band of a TPK risk, in percent, as the claim gives it.
TpkBand(tpk_risk) ==
    IF tpk_risk > 30 THEN "Deadly"
    ELSE IF tpk_risk >= 15 THEN "Hard"
    ELSE IF tpk_risk >= 5 THEN "Medium"
    ELSE "Easy"

\* C27: for an average duration below 10 rounds, calculate_difficulty_rating
\* returns the more severe of the win-rate band (Deadly below 40%, Hard from
\* 40 to below 60, Medium from 60 to below 80, Easy from 80, each threshold
\* shifted by 2.5 points per party member above or below 4) and the TPK band
\* (Easy below 5%, Medium from 5 to below 15, Hard from 15 to 30, Deadly
\* above 30), for every win rate and TPK risk of the grid and every party
\* size.
C27_WorseOfTwoBands ==
    (Returned("calculate_difficulty_rating") /\ probe.avg_duration < 10) =>
       LET by_win == WinRateBand(probe.win_rate, probe.party_size)
           by_tpk == TpkBand(probe.tpk_risk)
       IN  Val(out) = IF Severity(by_win) >= Severity(by_tpk) THEN by_win ELSE by_tpk

\* ------------------------------------------------------ C28
\* C28: for a fixed win rate, TPK risk and party size, an average duration of
\* 10 rounds or more never yields an easier rating than a duration below 10,
\* and with such a duration a win rate less than 5 points above the Easy
\* threshold is not rated Easy.
C28_LongFightsNotEasier ==
    (Returned("calculate_difficulty_rating") /\ probe.avg_duration >= 10) =>
       /\ Severity(Val(out)) >=
             Severity(calculate_difficulty_rating(probe.win_rate, probe.tpk_risk, 9,
                                                  probe.party_size))
       /\ 10 * probe.win_rate < EasyThreshold(probe.party_size) + 50 =>
             Val(out) # "Easy"

\* ------------------------------------------------------ C30
\* C30: at the end of every run_combat the last log entry is the combat-over
\* line; the winner it names is the only team with a living member in the
\* final state, None if there is no such team or more than one, and the round
\* count it reports is the number of rounds the engine started.
C30_CombatOverLineLast ==
    pc = "done" =>
       /\ entries_tail # <<>>
       /\ LET line == entries_tail[Len(entries_tail)]
          IN  /\ line.entry = "combat_over"
              /\ \A t \in Teams : line.winner = t <=> TeamsAlive = {t}
              /\ line.winner = None <=> Cardinality(TeamsAlive) # 1
              /\ line.rounds = rounds

\* The combat ended in its second round with the party alone standing, and
\* the strategy evolution of that round was logged before the line.
C30_Witness ==
    /\ pc = "done"
    /\ rounds = 2
    /\ TeamsAlive = {"party"}
    /\ Len(entries_tail) = 2
    /\ entries_tail[2].winner = "party"
    /\ entries_tail[2].rounds = 2

\* ------------------------------------------------------ C31
\* C31: for a dice expression NdM+K (K negative, zero or positive)
\* roll_damage_for_attack returns a value from N+K to N*M+K when the hit is
\* not critical and from 2N+K to 2N*M+K when it is (the dice count doubled,
\* the modifier added once), and for a flat expression it returns the same
\* value whether or not the hit is critical.
C31_DamageRange ==
    Returned("roll_damage_for_attack") =>
       LET count == IF probe.is_critical THEN 2 * probe.n ELSE probe.n
       IN  IF probe.n > 0
           THEN /\ count + probe.k <= Val(out)
                /\ Val(out) <= count * probe.m + probe.k
           ELSE Val(out) = probe.k

\* A critical hit with a negative modifier that rolled all dice at their
\* highest.
C31_Witness ==
    /\ Returned("roll_damage_for_attack")
    /\ probe.is_critical
    /\ probe.n = 2 /\ probe.m = 3 /\ probe.k = -2
    /\ Val(out) = 10

\* ------------------------------------------------------ C32
\* C32: whenever run_combat asks a creature for an action, that creature is the
\* one the state's turn pointer names, initiative_order[current_turn], also
\* after downed creatures were skipped and after a mover was dropped by an
\* opportunity attack.
C32_AskedCreatureIsCurrent ==
    [][asked' # asked /\ asked' # <<>> =>
           initiative_order[current_turn + 1] = asked'[Len(asked')]]_vars

\* ------------------------------------------------------ C33
\* C33: a turn whose action is dodge, death_save, aoe, or an attack without
\* move_to makes no opportunity attack and leaves every creature's position
\* and the reaction_used set as they were while it is resolved; dodge and
\* death_save also leave every creature's HP as it was.
C33_StationaryTurns ==
    [][/\ asked' # asked /\ asked' # <<>>
       /\ \/ action'.action_type \in {"dodge", "death_save", "aoe"}
          \/ action'.action_type = "attack" /\ action'.move_to = Nothing
       => /\ oa_log' = <<>>
          /\ oa_made' = oa_made
          /\ pos' = pos
          /\ reaction_used' = reaction_used
          /\ action'.action_type \in {"dodge", "death_save"} => hp' = hp]_vars

\* The fighter, next to the ogre, dodged with a destination out of the ogre's
\* reach in its action.
C33_Witness ==
    /\ pc = "end_turn"
    /\ action.action_type = "dodge"
    /\ action.move_to = Some(<<0, 0>>)
    /\ asked[Len(asked)] = 1
    /\ pos[1] = <<1, 0>>
    /\ pos[4] = <<2, 0>>
    /\ hp[4] > 0
    /\ 4 \notin reaction_used

\* ------------------------------------------------------ C34
\* C34: a trial that ends with no winner is neither a party win nor a party
\* loss in the statistics run_batch returns: wins counts only the trials the
\* party won, the loss-duration average is taken over the trials the enemy
\* won only, and tpk_count counts only trials the enemy won.
C34_NoWinnerIsNeitherWinNorLoss ==
    (mc = "done" /\ Val(out).raised = None) =>
       LET finals == Val(out).final_states
           lost == {k \in 1 .. Len(finals) : trial_winner(finals[k]) = "enemy"}
           losses == average_rounds(finals, lost)
       IN  /\ Val(out).wins + Cardinality(lost)
                + Cardinality({k \in 1 .. Len(finals) : trial_winner(finals[k]) = None})
                = Val(out).total_runs
           /\ Val(out).tpk_count <= Cardinality(lost)
           /\ Val(out).avg_combat_duration_losses.sum * losses.count
                = losses.sum * Val(out).avg_combat_duration_losses.count

\* ------------------------------------------------------ C35
\* The damage the creature `name` dealt in the events.
RECURSIVE DamageDealt(_, _)
DamageDealt(events, name) ==
    IF events = <<>> THEN 0
    ELSE (IF Head(events).by = name THEN Head(events).amount ELSE 0)
         + DamageDealt(Tail(events), name)

\* C35: for every sequence of combat events in a trial log the damage
\* breakdown gives each creature the damage it dealt through direct attacks,
\* opportunity attacks and AoE, and total_damage is the sum of all damage
\* dealt.
C35_DamageAttributedToDealer ==
    Returned("extract_damage_breakdown") =>
       /\ \A name \in {"Fighter", "Ogre"} :
             Val(out).by_creature[name] = DamageDealt(probe.events, name)
       /\ Val(out).total_damage
             = DamageDealt(probe.events, "Fighter") + DamageDealt(probe.events, "Ogre")

\* ------------------------------------------------------ C36
\* The calls since the last reset_circuit_breaker.
SinceReset ==
    LET resets == {k \in 1 .. Len(decisions) : decisions[k].event = "reset_circuit_breaker"}
        last == IF resets = {} THEN 0 ELSE CHOOSE k \in resets : \A r \in resets : r <= k
    IN  SubSeq(decisions, last + 1, Len(decisions))

\* Some threshold-many failed decisions with no successful decision between the
\* first and the last of them.
FailureRun(calls, threshold) ==
    \E first, last \in 1 .. Len(calls) :
       /\ first <= last
       /\ calls[first].failed /\ calls[last].failed
       /\ Cardinality({k \in first .. last : calls[k].failed}) = threshold
       /\ \A k \in first .. last : calls[k].provider_called => calls[k].failed

\* C36: over any sequence of choose_action calls for living creatures the
\* provider is called in a decision iff the circuit is closed; the circuit is
\* open iff since the last reset_circuit_breaker there has been a run of
\* circuit_breaker_threshold consecutive failed decisions with no successful
\* decision in between; an open circuit stays open until reset_circuit_breaker;
\* and every failed decision returns the heuristic fallback's action.
C36_CircuitBreaker ==
    /\ [](probe.fn = "choose_action" =>
            /\ \A k \in 1 .. Len(decisions) :
                  decisions[k].event = "choose_action" =>
                     /\ decisions[k].alive =>
                           (decisions[k].provider_called <=> ~decisions[k].was_open)
                     /\ decisions[k].failed => decisions[k].returned = "heuristic"
            /\ circuit_open <=> FailureRun(SinceReset, probe.circuit_breaker_threshold))
    /\ [][circuit_open /\ ~circuit_open' =>
             decisions'[Len(decisions')].event = "reset_circuit_breaker"]_vars

\* A success, then three failures in a row opened the circuit of an agent of
\* threshold 3, and the next call went to the heuristic without the provider.
C36_Witness ==
    /\ probe.fn = "choose_action"
    /\ probe.circuit_breaker_threshold = 3
    /\ Len(decisions) = 5
    /\ \A k \in 1 .. 5 : decisions[k].event = "choose_action" /\ decisions[k].alive
    /\ decisions[1].provider_called /\ ~decisions[1].failed
    /\ \A k \in 2 .. 4 : decisions[k].failed
    /\ decisions[5].was_open /\ ~decisions[5].provider_called
    /\ circuit_open
    /\ out = Some("heuristic")

\* ------------------------------------------------------ C37
\* C37: when run_combat has returned, the round field of the final state is
\* the round number of the combat-over log line, the number of rounds started,
\* whether the combat ended in the middle of a round, on the last creature of
\* a round or at the max_rounds cutoff.
C37_FinalRoundIsRoundsStarted ==
    pc = "done" => round = entries_tail[Len(entries_tail)].rounds

\* ------------------------------------------------------ C38
\* C38: a creature whose HP has reached 0 keeps HP 0 and its position for the
\* rest of the combat: no step heals, damages or moves it, and it is never
\* asked for an action.
C38_DownedCreaturesStayDown ==
    [][/\ \A c \in Ids : hp[c] <= 0 => hp'[c] = hp[c] /\ pos'[c] = pos[c]
       /\ asked' # asked /\ asked' # <<>> => hp[asked'[Len(asked')]] > 0]_vars

\* In round 2 the wizard has aimed its Ray at the fighter, who went down in
\* round 1 and was passed over in round 2: no attack was rolled, and the
\* fighter is where it stood.
C38_Witness ==
    /\ pc = "end_turn"
    /\ rounds = 2
    /\ hp[1] = 0
    /\ pos[1] = Templates[1].position
    /\ 1 \notin {asked[k] : k \in 1 .. Len(asked)}
    /\ asked[Len(asked)] = 3
    /\ action.action_type = "attack"
    /\ action.attack_name = "Ray"
    /\ action.target_id = Some(1)
    /\ atk_log = <<>>

\* ------------------------------------------------------ C39
\* C39: the final CombatState run_combat returns is marked as ended: its
\* is_over field is true and its winner field is get_winner of that state.
C39_FinalStateMarkedOver ==
    pc = "done" => is_over /\ state_winner = get_winner(hp)

\* ------------------------------------------------------ C40
\* C40: death is absorbing for death saves: once a creature has 3 or more
\* failures, every later make_death_save leaves its HP at 0 and its stable
\* flag false, a natural 20 included, and the failures never exceed 3.
C40_DeathIsAbsorbing ==
    Returned("make_death_save") =>
        /\ probe.creature.failures >= 3 =>
              /\ Val(out).creature.current_hp = 0
              /\ ~Val(out).creature.stable
        /\ Val(out).creature.failures <= 3

====
